---- MODULE Spec2Model ----
(***************************************************************************)
(* Model of the NutriPlan nutrition calculator (Hydro-1345/Nutrition-      *)
(* planner): the managers of js/app.js, the dashboard and profile pages of *)
(* js/profile.js, the progress page of js/progress.js, the meal planner,   *)
(* meal library and profile pages of unnamed/part_000 and unnamed/part_001,*)
(* and the page load of js/app.js with a page script such as               *)
(* js/dashboard.js.                                                        *)
(*                                                                         *)
(* JavaScript numbers are modelled as exact rationals [num, den] in lowest *)
(* terms with den > 0; the value with den = 0 stands for null / undefined  *)
(* / NaN, which the code only ever tests for falsiness.  Strings are TLA+  *)
(* strings, "" standing for an empty or absent string.                     *)
(***************************************************************************)
EXTENDS Integers, Sequences, FiniteSets, TLC

VARIABLES
    profile,     \* the profile record handed to the calculators
    pmCalc,      \* ProfileManager.calculateDailyCalories: its locals and result
    pmBmi,       \* ProfileManager.calculateBMI and getBMICategory results
    userData,    \* DashboardManager.userData
    macroArgs,   \* calculateMacroGoals: the (calories, goal) arguments
    macroGoals,  \* calculateMacroGoals: the returned object
    meals,       \* calculateTotalNutrition: the meal array
    split,       \* where the meal array is cut into two lists
    totals,      \* calculateTotalNutrition results
    now,         \* the clock: hours since 00:00 UTC of day 0
    tz,          \* the time zone of the browser
    period,      \* ProgressManager.currentPeriod
    mealStore,   \* localStorage item nutriplan_meals: the stored meal array
    profileForm, \* the inputs of #profile-form
    goalsForm,   \* the inputs of #goals-form
    profileItem, \* localStorage item of the profile
    goalsItem,   \* localStorage item of the goals
    bmiItem,     \* localStorage item userBMI
    summary,     \* MealPlannerManager.calculateDailySummary: argument and result
    goalProgress, \* ProgressManager.updateGoalProgress: the four progress bars
    macroInputs, \* the protein, carbs, fats and calories inputs of the meal form
    autoCalories, \* what calculateCalories of setupMacroCalculation did
    macrosBreakdown, \* the data of the macros breakdown chart
    series,      \* calculateLinearTrend: the values handed to it
    trend,       \* calculateLinearTrend: the returned object
    streaks,     \* calculateStreaks: the returned object
    mealLog,     \* the MealManager.saveMeal and deleteMeal calls made, in order
    openPage,    \* the document loaded: meal-planner.html or meal-library.html
    currentDate, \* MealPlannerManager.currentDate
    mealForm,    \* the inputs of #meal-form
    libraryItem, \* localStorage item of the meal library
    notification, \* the last message NotificationManager showed
    page,        \* what the handlers wrote into the page's containers
    caloriesChart, \* the calories trend chart: the meals of the period and the days drawn
    themeItem,   \* localStorage item of the theme
    currentTheme, \* ThemeManager.currentTheme, "" before a ThemeManager is constructed
    dataTheme,   \* the data-theme attribute of the document
    systemScheme, \* what (prefers-color-scheme: dark) says: "dark" or "light"
    manualTheme, \* the user has clicked #theme-toggle
    themeLog,    \* the page loads, clicks and scheme changes so far
    pathname,    \* the last segment of window.location.pathname, "" for no document
    readyState,  \* document.readyState
    scriptsRun,  \* the scripts of the document that have run
    domReadyListeners, \* the DOMContentLoaded listeners, in the order they were added
    domContentLoaded, \* DOMContentLoaded has been dispatched
    managerClass, \* window.<the page's manager class> is defined
    instances,   \* how many instances of the page's manager class were constructed
    lastEvent    \* the last event dispatched and how many handlers ran for it

calcVars == <<profile, pmCalc, pmBmi, userData, macroArgs, macroGoals, meals, split, totals>>
clockVars == <<now, tz, period>>
storeVars == <<mealStore>>
goalVars == <<profileForm, goalsForm, profileItem, goalsItem, bmiItem, summary, goalProgress>>
macroVars == <<macroInputs, autoCalories, macrosBreakdown>>
trendVars == <<series, trend>>
streakVars == <<streaks>>
pageVars == <<openPage, currentDate, mealForm, libraryItem, notification, page>>
plannerVars == <<mealLog, pageVars>>
progressVars == <<caloriesChart>>
themeVars == <<themeItem, currentTheme, dataTheme, systemScheme, manualTheme, themeLog>>
\* the variables of the App shell that every page carries
loadVars == <<pathname, readyState, scriptsRun, domReadyListeners, domContentLoaded,
             managerClass, instances, lastEvent>>
shellVars == <<themeVars, loadVars>>

outsideTheme == <<calcVars, clockVars, storeVars, goalVars, macroVars, trendVars, streakVars,
                 plannerVars, progressVars, loadVars>>
outsideLoad == <<calcVars, clockVars, storeVars, goalVars, macroVars, trendVars, streakVars,
                plannerVars, progressVars, themeVars>>

\* the variables the operations of one page leave alone
outsideProgress == <<calcVars, storeVars, macroVars, trendVars, streakVars, plannerVars, shellVars>>
outsideGoals == <<outsideProgress, progressVars>>
outsideMacros == <<calcVars, clockVars, storeVars, goalVars, trendVars, streakVars, plannerVars, progressVars, shellVars>>
outsideTrend == <<calcVars, clockVars, storeVars, goalVars, macroVars, streakVars, plannerVars, progressVars, shellVars>>
outsideStreaks == <<calcVars, goalVars, macroVars, trendVars, plannerVars, progressVars, shellVars>>
outsidePlanner == <<calcVars, goalVars, macroVars, trendVars, streakVars, progressVars, shellVars>>
outsideProfilePage == <<calcVars, storeVars, macroVars, trendVars, streakVars, mealLog, openPage,
                        currentDate, mealForm, libraryItem, page, progressVars, shellVars>>
appVars == <<clockVars, storeVars, goalVars, macroVars, trendVars, streakVars, plannerVars,
             progressVars, shellVars>>

vars == <<calcVars, appVars>>

----------------------------------------------------------------------------
(* Bounds of the model *)

MaxAge == 30
MaxHeight == 182
MaxWeight == 80
MaxBmiHeight == 200
MaxBmiWeight == 120
MaxHalfCalories == 4000
MealKinds == 5
MaxMeals == 3

----------------------------------------------------------------------------
(* JavaScript numbers as exact rationals *)

Abs(n) == IF n < 0 THEN -n ELSE n

RECURSIVE GCD(_, _)
GCD(a, b) == IF b = 0 THEN a ELSE GCD(b, a % b)

\* null, undefined and NaN: a value every arithmetic guard of the code rejects
Null == [num |-> 0, den |-> 0]

Rat(n, d) ==
    IF d = 0 THEN Null
    ELSE LET s == IF d < 0 THEN -1 ELSE 1
             g == GCD(Abs(n), Abs(d))
         IN  [num |-> (s * n) \div g, den |-> (s * d) \div g]

Num(n) == Rat(n, 1)

IsNull(a) == a.den = 0
\* the operands are reduced against each other first, so that no intermediate
\* product is larger than the result needs
Plus(a, b) ==
    IF IsNull(a) \/ IsNull(b) THEN Null
    ELSE LET g == GCD(a.den, b.den)
         IN  Rat(a.num * (b.den \div g) + b.num * (a.den \div g), (a.den \div g) * b.den)
Minus(a, b) == IF IsNull(a) \/ IsNull(b) THEN Null
               ELSE Plus(a, [num |-> -b.num, den |-> b.den])
Times(a, b) ==
    IF IsNull(a) \/ IsNull(b) THEN Null
    ELSE LET g1 == GCD(Abs(a.num), b.den)
             g2 == GCD(Abs(b.num), a.den)
         IN  Rat((a.num \div g1) * (b.num \div g2), (a.den \div g2) * (b.den \div g1))
\* a division by zero gives Infinity or NaN, which no guarded path of the code reaches
Over(a, b) == IF IsNull(a) \/ IsNull(b) \/ b.num = 0 THEN Null
              ELSE Times(a, Rat(b.den, b.num))
Less(a, b) == ~IsNull(a) /\ ~IsNull(b) /\ a.num * b.den < b.num * a.den
LessEq(a, b) == ~IsNull(a) /\ ~IsNull(b) /\ a.num * b.den <= b.num * a.den

\* !x for a number or null
Falsy(a) == IsNull(a) \/ a.num = 0

\* Math.round: the nearest integer, a tie going up
MathRound(a) == IF IsNull(a) THEN Null
                ELSE Num((2 * a.num + a.den) \div (2 * a.den))

\* parseInt of a stored decimal string: the integer part, truncated towards 0
ParseInt(a) ==
    IF IsNull(a) THEN Null
    ELSE IF a.num >= 0 THEN Num(a.num \div a.den)
    ELSE Num(-((-a.num) \div a.den))

\* parseFloat of a stored decimal string; a missing item gives NaN
ParseFloat(a) == a

\* x || 0
OrZero(a) == IF Falsy(a) THEN Num(0) ELSE a

----------------------------------------------------------------------------
(* ProfileManager.calculateDailyCalories (js/app.js) *)

\* const activityMultipliers = {...}; an absent key reads as undefined
PM_activityMultipliers(level) ==
    CASE level = "sedentary" -> Rat(12, 10)
      [] level = "light" -> Rat(1375, 1000)
      [] level = "moderate" -> Rat(155, 100)
      [] level = "active" -> Rat(1725, 1000)
      [] level = "very-active" -> Rat(19, 10)
      [] OTHER -> Null

\* a goalAdjustments table whose build-muscle entry repeats gain-weight's
goalAdjustments_MuscleAsGain(goal) ==
    CASE goal = "lose-weight" -> Num(-500)
      [] goal = "maintain-weight" -> Num(0)
      [] goal = "gain-weight" -> Num(500)
      [] goal = "build-muscle" -> Num(500)
      [] goal = "improve-performance" -> Num(0)
      [] OTHER -> Null

\* const goalAdjustments = {...}; an absent key reads as undefined
goalAdjustments(goal) ==
    CASE goal = "lose-weight" -> Num(-500)
      [] goal = "maintain-weight" -> Num(0)
      [] goal = "gain-weight" -> Num(500)
      [] goal = "build-muscle" -> Num(300)
      [] goal = "improve-performance" -> Num(0)
      [] OTHER -> Null

\* the guard of calculateDailyCalories: any falsy field returns null
PM_missingField(p) ==
    \/ Falsy(p.age)
    \/ p.gender = ""
    \/ Falsy(p.height)
    \/ Falsy(p.weight)
    \/ p.activityLevel = ""

\* let bmr: the male branch, and one else branch for every other gender
PM_bmr(p) ==
    IF p.gender = "male"
    THEN Plus(Minus(Plus(Times(Num(10), p.weight), Times(Rat(625, 100), p.height)),
                    Times(Num(5), p.age)), Num(5))
    ELSE Minus(Minus(Plus(Times(Num(10), p.weight), Times(Rat(625, 100), p.height)),
                     Times(Num(5), p.age)), Num(161))

\* the tdee line with the dashboard's fallback, || 1.55
PM_tdee_Fallback155(bmr, level) ==
    Times(bmr, IF Falsy(PM_activityMultipliers(level))
               THEN Rat(155, 100)
               ELSE PM_activityMultipliers(level))

\* const tdee = bmr * (activityMultipliers[activityLevel] || 1.2)
PM_tdee(bmr, level) ==
    Times(bmr, IF Falsy(PM_activityMultipliers(level))
               THEN Rat(12, 10)
               ELSE PM_activityMultipliers(level))

\* the locals and the returned value of one call
calculateDailyCalories(p) ==
    IF PM_missingField(p)
    THEN [called |-> TRUE, bmr |-> Null, tdee |-> Null, result |-> Null]
    ELSE LET bmr == PM_bmr(p)
             tdee == PM_tdee(bmr, p.activityLevel)
         IN  [called |-> TRUE, bmr |-> bmr, tdee |-> tdee,
              result |-> MathRound(Plus(tdee, OrZero(goalAdjustments(p.goal))))]

----------------------------------------------------------------------------
(* DashboardManager user metrics (js/profile.js) *)

\* if (height <= 0 || weight <= 0) return 0; weight / (heightInMeters ^ 2)
DM_calculateBMI(u) ==
    IF LessEq(u.height, Num(0)) \/ LessEq(u.weight, Num(0)) THEN Num(0)
    ELSE Over(u.weight, Times(Over(u.height, Num(100)), Over(u.height, Num(100))))

DM_getBMICategory(bmi) ==
    IF bmi = Num(0) THEN "Not available"
    ELSE IF Less(bmi, Rat(185, 10)) THEN "Underweight"
    ELSE IF Less(bmi, Num(25)) THEN "Normal weight"
    ELSE IF Less(bmi, Num(30)) THEN "Overweight"
    ELSE "Obese"

DM_calculateBMR(u) ==
    IF LessEq(u.weight, Num(0)) \/ LessEq(u.height, Num(0)) \/ LessEq(u.age, Num(0))
    THEN Num(0)
    ELSE LET bmr == Minus(Plus(Times(Num(10), u.weight), Times(Rat(625, 100), u.height)),
                          Times(Num(5), u.age))
         IN  MathRound(IF u.gender = "male" THEN Plus(bmr, Num(5))
                       ELSE IF u.gender = "female" THEN Minus(bmr, Num(161))
                       ELSE bmr)

DM_activityMultipliers(level) ==
    CASE level = "sedentary" -> Rat(12, 10)
      [] level = "light" -> Rat(1375, 1000)
      [] level = "moderate" -> Rat(155, 100)
      [] level = "active" -> Rat(1725, 1000)
      [] level = "very-active" -> Rat(19, 10)
      [] OTHER -> Null

\* const multiplier = activityMultipliers[activityLevel] || 1.55
DM_calculateTDEE(bmr, level) ==
    IF bmr = Num(0) THEN Num(0)
    ELSE MathRound(Times(bmr, IF Falsy(DM_activityMultipliers(level))
                              THEN Rat(155, 100)
                              ELSE DM_activityMultipliers(level)))

\* loadUserData: the six localStorage items with their defaults, then the
\* derived metrics in the order the code computes them
loadUserData(items) ==
    LET u == [height |-> OrZero(ParseFloat(items.height)),
              weight |-> OrZero(ParseFloat(items.weight)),
              age |-> OrZero(ParseInt(items.age)),
              gender |-> IF items.gender = "" THEN "not-specified" ELSE items.gender,
              activityLevel |-> IF items.activityLevel = "" THEN "moderate"
                                ELSE items.activityLevel,
              goal |-> IF items.goal = "" THEN "maintain" ELSE items.goal]
        bmi == DM_calculateBMI(u)
        bmr == DM_calculateBMR(u)
    IN  [loaded |-> TRUE, height |-> u.height, weight |-> u.weight, age |-> u.age,
         gender |-> u.gender, activityLevel |-> u.activityLevel, goal |-> u.goal,
         bmi |-> bmi, bmiCategory |-> DM_getBMICategory(bmi),
         bmr |-> bmr, tdee |-> DM_calculateTDEE(bmr, u.activityLevel)]

----------------------------------------------------------------------------
(* ProfileManager.calculateMacroGoals, calculateBMI, getBMICategory (js/app.js) *)

\* a macroRatios table whose lose-weight triple sums to 0.95
macroRatios_LoseWeightShort(goal) ==
    CASE goal = "lose-weight" ->
           [protein |-> Rat(30, 100), carbs |-> Rat(35, 100), fats |-> Rat(30, 100)]
      [] goal = "gain-weight" ->
           [protein |-> Rat(25, 100), carbs |-> Rat(50, 100), fats |-> Rat(25, 100)]
      [] goal = "build-muscle" ->
           [protein |-> Rat(30, 100), carbs |-> Rat(40, 100), fats |-> Rat(30, 100)]
      [] goal = "improve-performance" ->
           [protein |-> Rat(20, 100), carbs |-> Rat(60, 100), fats |-> Rat(20, 100)]
      [] OTHER ->
           [protein |-> Rat(25, 100), carbs |-> Rat(45, 100), fats |-> Rat(30, 100)]

\* const macroRatios = {...}; macroRatios[goal] || macroRatios['maintain-weight']
macroRatios(goal) ==
    CASE goal = "lose-weight" ->
           [protein |-> Rat(30, 100), carbs |-> Rat(35, 100), fats |-> Rat(35, 100)]
      [] goal = "gain-weight" ->
           [protein |-> Rat(25, 100), carbs |-> Rat(50, 100), fats |-> Rat(25, 100)]
      [] goal = "build-muscle" ->
           [protein |-> Rat(30, 100), carbs |-> Rat(40, 100), fats |-> Rat(30, 100)]
      [] goal = "improve-performance" ->
           [protein |-> Rat(20, 100), carbs |-> Rat(60, 100), fats |-> Rat(20, 100)]
      [] OTHER ->
           [protein |-> Rat(25, 100), carbs |-> Rat(45, 100), fats |-> Rat(30, 100)]

\* calculateMacroGoals dividing the fat calories by 4 like the other two
calculateMacroGoals_FatsBy4(calories, goal) ==
    IF Falsy(calories)
    THEN [isNull |-> TRUE, protein |-> Null, carbs |-> Null, fats |-> Null]
    ELSE LET ratios == macroRatios(goal)
         IN  [isNull |-> FALSE,
              protein |-> MathRound(Over(Times(calories, ratios.protein), Num(4))),
              carbs |-> MathRound(Over(Times(calories, ratios.carbs), Num(4))),
              fats |-> MathRound(Over(Times(calories, ratios.fats), Num(4)))]

\* the returned object; isNull marks the null return
calculateMacroGoals(calories, goal) ==
    IF Falsy(calories)
    THEN [isNull |-> TRUE, protein |-> Null, carbs |-> Null, fats |-> Null]
    ELSE LET ratios == macroRatios(goal)
         IN  [isNull |-> FALSE,
              protein |-> MathRound(Over(Times(calories, ratios.protein), Num(4))),
              carbs |-> MathRound(Over(Times(calories, ratios.carbs), Num(4))),
              fats |-> MathRound(Over(Times(calories, ratios.fats), Num(9)))]

\* calculateBMI rounding to one decimal, as the display does with toFixed(1)
PM_calculateBMI_Rounded(height, weight) ==
    IF Falsy(height) \/ Falsy(weight) THEN Null
    ELSE Over(MathRound(Times(Num(10),
                 Over(weight, Times(Over(height, Num(100)), Over(height, Num(100)))))),
              Num(10))

PM_calculateBMI(height, weight) ==
    IF Falsy(height) \/ Falsy(weight) THEN Null
    ELSE Over(weight, Times(Over(height, Num(100)), Over(height, Num(100))))

\* getBMICategory with <= at the three boundaries
PM_getBMICategory_Inclusive(bmi) ==
    IF Falsy(bmi) THEN "Unknown"
    ELSE IF LessEq(bmi, Rat(185, 10)) THEN "Underweight"
    ELSE IF LessEq(bmi, Num(25)) THEN "Normal weight"
    ELSE IF LessEq(bmi, Num(30)) THEN "Overweight"
    ELSE "Obese"

PM_getBMICategory(bmi) ==
    IF Falsy(bmi) THEN "Unknown"
    ELSE IF Less(bmi, Rat(185, 10)) THEN "Underweight"
    ELSE IF Less(bmi, Num(25)) THEN "Normal weight"
    ELSE IF Less(bmi, Num(30)) THEN "Overweight"
    ELSE "Obese"

----------------------------------------------------------------------------
(* MealManager.calculateTotalNutrition (js/app.js) *)

\* meal.field without the || 0: an absent field reads as undefined
FieldOrZero_NoDefault(meal, f) == IF f \in DOMAIN meal THEN meal[f] ELSE Null

\* meal.field || 0: an absent, null or zero field counts as 0
FieldOrZero(meal, f) == IF f \in DOMAIN meal THEN OrZero(meal[f]) ELSE Num(0)

\* a reducer callback whose protein line lost its "total.protein +"
AddMeal_ProteinOverwritten(total, meal) ==
    [calories |-> Plus(total.calories, FieldOrZero(meal, "calories")),
     protein |-> FieldOrZero(meal, "protein"),
     carbs |-> Plus(total.carbs, FieldOrZero(meal, "carbs")),
     fats |-> Plus(total.fats, FieldOrZero(meal, "fats"))]

\* the reducer callback
AddMeal(total, meal) ==
    [calories |-> Plus(total.calories, FieldOrZero(meal, "calories")),
     protein |-> Plus(total.protein, FieldOrZero(meal, "protein")),
     carbs |-> Plus(total.carbs, FieldOrZero(meal, "carbs")),
     fats |-> Plus(total.fats, FieldOrZero(meal, "fats"))]

RECURSIVE Reduce(_, _)
Reduce(ms, total) ==
    IF ms = <<>> THEN total ELSE Reduce(Tail(ms), AddMeal(total, Head(ms)))

ZeroTotals == [calories |-> Num(0), protein |-> Num(0), carbs |-> Num(0), fats |-> Num(0)]

calculateTotalNutrition(ms) == Reduce(ms, ZeroTotals)

----------------------------------------------------------------------------
(* Inputs *)

Genders == {"", "male", "female", "other"}
ActivityLevels == {"", "sedentary", "light", "moderate", "active", "very-active", "extreme"}
Goals == {"", "lose-weight", "maintain-weight", "gain-weight", "build-muscle",
          "improve-performance", "stay-fit"}

Ages == {Null, Num(-30), Num(0), Rat(61, 2)} \cup {Num(n) : n \in 30..MaxAge}
Heights == {Null, Num(-180), Num(0)} \cup {Num(n) : n \in 180..MaxHeight}
Weights == {Null, Num(-80), Num(0)} \cup {Num(n) : n \in 80..MaxWeight}

Profiles ==
    [age : Ages, gender : Genders, height : Heights, weight : Weights,
     activityLevel : ActivityLevels, goal : Goals]

BmiHeights == {Null, Num(0), Num(-170)} \cup {Num(n) : n \in 190..MaxBmiHeight}
BmiWeights == {Null, Num(0), Num(-70)} \cup {Num(n) : n \in 70..MaxBmiWeight}

BmiProfiles ==
    [age : {Num(30)}, gender : {"female"}, height : BmiHeights, weight : BmiWeights,
     activityLevel : {"moderate"}, goal : {"maintain-weight"}]

\* calorie goals in steps of half a calorie, with null and a negative value
CalorieArgs == {Null, Num(-2000)} \cup {Rat(n, 2) : n \in 0..MaxHalfCalories}

\* the nutrition fields of two of MealLibraryManager.getDefaultMeals, and
\* records with absent and null fields as a library import can store them
MealPool ==
    << [calories |-> Num(284), protein |-> Rat(534, 10), carbs |-> Num(0), fats |-> Rat(62, 10)],
       [calories |-> Num(95), carbs |-> Num(25)],
       [protein |-> Num(20), fats |-> Rat(15, 10)],
       [calories |-> Num(150), protein |-> Num(15), carbs |-> Num(20), fats |-> Num(2)],
       [calories |-> Num(120), protein |-> Null, carbs |-> Num(0), fats |-> Num(14)],
       [foodItem |-> "Water"] >>

MealKindsUsed == IF MealKinds < Len(MealPool) THEN MealKinds ELSE Len(MealPool)

MealLists ==
    UNION {[1..n -> {MealPool[i] : i \in 1..MealKindsUsed}] : n \in 0..MaxMeals}

----------------------------------------------------------------------------
(* State *)

NotCalled == [called |-> FALSE, bmr |-> Null, tdee |-> Null, result |-> Null]
NoBmi == [called |-> FALSE, value |-> Null, category |-> ""]
\* this.userData = {} of the constructor
EmptyUserData ==
    [loaded |-> FALSE, height |-> Null, weight |-> Null, age |-> Null, gender |-> "",
     activityLevel |-> "", goal |-> "", bmi |-> Null, bmiCategory |-> "",
     bmr |-> Null, tdee |-> Null]
NoMacroGoals == [called |-> FALSE, isNull |-> FALSE, protein |-> Null, carbs |-> Null,
                 fats |-> Null]
NoTotals == [called |-> FALSE, input |-> <<>>, whole |-> ZeroTotals,
             left |-> ZeroTotals, right |-> ZeroTotals]
BlankProfile == [age |-> Null, gender |-> "", height |-> Null, weight |-> Null,
                 activityLevel |-> "", goal |-> ""]
NoMacroArgs == [calories |-> Null, goal |-> ""]

Outputs0 ==
    /\ pmCalc = NotCalled
    /\ pmBmi = NoBmi
    /\ userData = EmptyUserData
    /\ macroGoals = NoMacroGoals
    /\ totals = NoTotals

----------------------------------------------------------------------------
(* Operations *)

\* ProfileManager.calculateDailyCalories(profile)
CalculateDailyCalories ==
    /\ pmCalc' = calculateDailyCalories(profile)
    /\ UNCHANGED <<profile, pmBmi, userData, macroArgs, macroGoals, meals, split, totals, appVars>>

\* DashboardManager.loadUserData() over the stored user items
LoadUserData ==
    /\ userData' = loadUserData(profile)
    /\ UNCHANGED <<profile, pmCalc, pmBmi, macroArgs, macroGoals, meals, split, totals, appVars>>

\* ProfileManager.calculateBMI(height, weight), then getBMICategory(bmi)
CalculateBMI ==
    /\ pmBmi' = [called |-> TRUE,
                 value |-> PM_calculateBMI(profile.height, profile.weight),
                 category |-> PM_getBMICategory(
                                 PM_calculateBMI(profile.height, profile.weight))]
    /\ UNCHANGED <<profile, pmCalc, userData, macroArgs, macroGoals, meals, split, totals, appVars>>

\* ProfileManager.calculateMacroGoals(calories, goal)
CalculateMacroGoals ==
    /\ macroGoals' = [called |-> TRUE] @@ calculateMacroGoals(macroArgs.calories, macroArgs.goal)
    /\ UNCHANGED <<profile, pmCalc, pmBmi, userData, macroArgs, meals, split, totals, appVars>>

\* MealManager.calculateTotalNutrition of the array and of its two parts
CalculateTotalNutrition ==
    /\ totals' = [called |-> TRUE,
                  input |-> meals,
                  whole |-> calculateTotalNutrition(meals),
                  left |-> calculateTotalNutrition(SubSeq(meals, 1, split)),
                  right |-> calculateTotalNutrition(SubSeq(meals, split + 1, Len(meals)))]
    /\ UNCHANGED <<profile, pmCalc, pmBmi, userData, macroArgs, macroGoals, meals, split, appVars>>

\* the caller hands over the same records in another order
Reorder ==
    \E i \in 1..(Len(meals) - 1) :
        /\ meals[i] # meals[i + 1]
        /\ meals' = [meals EXCEPT ![i] = meals[i + 1], ![i + 1] = meals[i]]
        /\ UNCHANGED <<profile, pmCalc, pmBmi, userData, macroArgs, macroGoals, split, totals, appVars>>

----------------------------------------------------------------------------
(* Dates (DateUtils of js/app.js and the Date arithmetic of js/progress.js) *)

\* An instant is a number of hours since 00:00 UTC of day 0, and a date
\* string 'YYYY-MM-DD' is the number of its day: the strings sort as the
\* numbers do.
Today == 40
HoursPerDay == 24

\* a time zone with one clock change: the UTC offset in hours is `before`
\* until the instant `at` and `after` from then on
Zone(before, after, at) == [before |-> before, after |-> after, at |-> at]

UtcOffset(z, t) == IF t < z.at THEN z.before ELSE z.after

\* the wall-clock reading of an instant
LocalTime(z, t) == t + UtcOffset(z, t)

\* the instant of a wall-clock reading; a reading that the clock change
\* repeats or skips is taken with the offset before the change
UTC(z, w) ==
    IF w - z.before < z.at THEN w - z.before
    ELSE IF w - z.after >= z.at THEN w - z.after
    ELSE w - z.before

\* date.setDate(date.getDate() - k): k days back on the wall clock
SetDateBack(z, t, k) == UTC(z, LocalTime(z, t) - HoursPerDay * k)

\* date.toISOString().split('T')[0]: the day of the instant in UTC
formatDate(t) == t \div HoursPerDay

\* new Date('YYYY-MM-DD'): 00:00 UTC of that day
NewDate(d) == d * HoursPerDay

getCurrentDate(t) == formatDate(t)

----------------------------------------------------------------------------
(* StorageManager (js/app.js) *)

\* localStorage.getItem gives null for an item never set
Absent == [present |-> FALSE]

\* JSON.stringify, setItem: the item holds the value; a number stays a
\* number, a string stays a string and NaN becomes null, which Null is already
StorageSet(value) == [present |-> TRUE, value |-> value]

\* item ? JSON.parse(item) : defaultValue
StorageGet(item, defaultValue) == IF item.present THEN item.value ELSE defaultValue

\* StorageManager.set with a catch block that reports success
StorageManager_set_CatchReturnsTrue(item, value, throws) ==
    IF throws THEN [item |-> item, returned |-> TRUE]
    ELSE [item |-> StorageSet(value), returned |-> TRUE]

\* StorageManager.set: try { setItem; return true } catch { return false }.
\* A setItem that throws (the quota is exceeded, storage is disabled) leaves
\* the item what it was
StorageManager_set(item, value, throws) ==
    IF throws THEN [item |-> item, returned |-> FALSE]
    ELSE [item |-> StorageSet(value), returned |-> TRUE]

\* the item StorageManager.set leaves
StorageWrite(item, value, ok) == StorageManager_set(item, value, ~ok).item

----------------------------------------------------------------------------
(* MealManager over the stored array (js/app.js) *)

getAllMeals(item) == StorageGet(item, <<>>)

\* meals.filter(meal => meal.date === date)
getMealsForDate(item, date) ==
    SelectSeq(getAllMeals(item), LAMBDA meal : meal.date = date)

----------------------------------------------------------------------------
(* ProgressManager (js/progress.js) *)

\* the period buttons of the progress page
Periods == {7, 14, 30}

\* startDate is the present instant moved back on the wall clock, so it keeps
\* the time of day; a meal's date is parsed as 00:00 UTC of its day
getMealsForPeriod(item, t, z, days) ==
    LET endDate == t
        startDate == SetDateBack(z, t, days - 1)
    IN  SelectSeq(getAllMeals(item),
                  LAMBDA meal : /\ NewDate(meal.date) >= startDate
                                /\ NewDate(meal.date) <= endDate)

\* [...new Set(meals.map(meal => meal.date))]: only its length is used
getUniqueDaysWithMeals(ms) == {ms[i].date : i \in 1..Len(ms)}

\* ProgressManager.initializeCaloriesTrendChart: the days drawn, the oldest
\* first, each with the calories of its meals among those of the period
caloriesTrend(ms, t, z, days) ==
    [k \in 1..days |->
        LET date == SetDateBack(z, t, days - k)
            dateString == formatDate(date)
            dayMeals == SelectSeq(ms, LAMBDA meal : meal.date = dateString)
        IN  [date |-> dateString, calories |-> calculateTotalNutrition(dayMeals).calories]]

----------------------------------------------------------------------------
(* Form values (FormUtils of js/app.js, getAllFormData of the profile page) *)

\* The text of a number input is the number it spells, Null for an empty
\* input.  A value read from it is a number or null (str FALSE) or the
\* text itself (str TRUE).
JsNum(a) == [val |-> a, str |-> FALSE]
JsStr(a) == [val |-> a, str |-> TRUE]

\* the truthiness of such a value: a string is truthy unless empty, so '0' is
Truthy(j) == IF j.str THEN ~IsNull(j.val) ELSE ~Falsy(j.val)

\* the number an arithmetic operator or comparison makes of it: null and ''
\* count as 0
ToNumber(j) == IF IsNull(j.val) THEN Num(0) ELSE j.val

\* parseFloat(x): NaN for '' and for null
JsParseFloat(j) == j.val

\* !isNaN(value) && value >= min && value <= max
isValidNumber(j, min, max) ==
    /\ LessEq(Num(min), ToNumber(j))
    /\ LessEq(ToNumber(j), Num(max))

\* String.trim over the texts of the model
Trim(s) == IF s = " Ada " THEN "Ada" ELSE s

\* div.textContent = input; return div.innerHTML: &, < and > are escaped,
\* quotes are not
sanitizeHTML(s) ==
    CASE s = "<img src=x onerror=alert(1)>" -> "&lt;img src=x onerror=alert(1)&gt;"
      [] s = "&lt;img src=x onerror=alert(1)&gt;" -> "&amp;lt;img src=x onerror=alert(1)&amp;gt;"
      [] s = "Mac & Cheese" -> "Mac &amp; Cheese"
      [] s = "Mac &amp; Cheese" -> "Mac &amp;amp; Cheese"
      [] OTHER -> s

\* NotificationManager.showNotification: the message shown, with the text of
\* the user it carries
Notice(type, message, text) == [type |-> type, message |-> message, text |-> sanitizeHTML(text)]
NoNotice == [type |-> "", message |-> "", text |-> ""]

\* FormUtils.getFormData: value ? parseFloat(value) : null for a number
\* input, sanitizeHTML(value.trim()) for any other
getFormData(form, numberInputs) ==
    [f \in DOMAIN form |->
        IF f \in numberInputs THEN JsNum(form[f]) ELSE sanitizeHTML(Trim(form[f]))]

\* ProfilePageManager.getAllFormData: input.value as it is
getAllFormData(form, numberInputs) ==
    [f \in DOMAIN form |-> IF f \in numberInputs THEN JsStr(form[f]) ELSE form[f]]

\* FormUtils.populateForm: an input takes data[key] unless that is null or
\* undefined
populateForm(form, data, numberInputs) ==
    [f \in DOMAIN form |->
        IF f \notin DOMAIN data THEN form[f]
        ELSE IF f \in numberInputs
             THEN (IF IsNull(data[f].val) /\ ~data[f].str THEN form[f] ELSE data[f].val)
             ELSE data[f]]

----------------------------------------------------------------------------
(* Profile and goals (APP_CONFIG and ProfileManager of js/app.js, the      *)
(* ProfilePageManager of js/profile.js and the one beside the meal planner) *)

ProfileNumberInputs == {"age", "height", "weight"}
GoalsNumberInputs == {"calorieGoal", "proteinGoal", "carbsGoal", "fatsGoal"}

\* APP_CONFIG.defaults.profile
DefaultProfile ==
    [firstName |-> "", lastName |-> "", age |-> JsNum(Null), gender |-> "",
     height |-> JsNum(Null), weight |-> JsNum(Null), activityLevel |-> "", goal |-> ""]

\* APP_CONFIG.defaults.goals
DefaultGoals ==
    [calorieGoal |-> JsNum(Num(2000)), proteinGoal |-> JsNum(Num(150)),
     carbsGoal |-> JsNum(Num(200)), fatsGoal |-> JsNum(Num(80))]

getProfile(item) == StorageGet(item, DefaultProfile)
getGoals(item) == StorageGet(item, DefaultGoals)

\* form.reset(): every input back to its initial, empty value
EmptyProfileForm ==
    [firstName |-> "", lastName |-> "", age |-> Null, gender |-> "",
     height |-> Null, weight |-> Null, activityLevel |-> "", goal |-> ""]
EmptyGoalsForm ==
    [calorieGoal |-> Null, proteinGoal |-> Null, carbsGoal |-> Null, fatsGoal |-> Null]

validateProfileData(p) ==
    /\ Truthy(p.age) => isValidNumber(p.age, 13, 120)
    /\ Truthy(p.height) => isValidNumber(p.height, 100, 250)
    /\ Truthy(p.weight) => isValidNumber(p.weight, 30, 300)

validateGoalsData(g) ==
    /\ Truthy(g.calorieGoal) => isValidNumber(g.calorieGoal, 1000, 5000)
    /\ Truthy(g.proteinGoal) => isValidNumber(g.proteinGoal, 0, 500)
    /\ Truthy(g.carbsGoal) => isValidNumber(g.carbsGoal, 0, 1000)
    /\ Truthy(g.fatsGoal) => isValidNumber(g.fatsGoal, 0, 300)

\* ProfilePageManager.calculateAndSaveBMI: the item it leaves in userBMI
calculateAndSaveBMI(p, item, t) ==
    LET height == JsParseFloat(p.height)
        weight == JsParseFloat(p.weight)
        bmi == PM_calculateBMI(height, weight)
    IN  IF ~Falsy(height) /\ ~Falsy(weight)
        THEN StorageSet([value |-> bmi, category |-> PM_getBMICategory(bmi),
                         height |-> height, weight |-> weight, lastUpdated |-> t])
        ELSE item

----------------------------------------------------------------------------
(* Percent of goal *)

\* goal ? Math.round((total / goal) * 100) : 0
SummaryPercent(total, goal) ==
    IF Truthy(goal) THEN MathRound(Times(Over(total, ToNumber(goal)), Num(100)))
    ELSE Num(0)

\* MealPlannerManager.calculateDailySummary(meals).percentages
calculateDailySummary(ms, goals) ==
    LET totalNutrition == calculateTotalNutrition(ms)
    IN  [calories |-> SummaryPercent(totalNutrition.calories, goals.calorieGoal),
         protein |-> SummaryPercent(totalNutrition.protein, goals.proteinGoal),
         carbs |-> SummaryPercent(totalNutrition.carbs, goals.carbsGoal),
         fats |-> SummaryPercent(totalNutrition.fats, goals.fatsGoal)]

RatMin(a, b) == IF IsNull(a) \/ IsNull(b) THEN Null ELSE IF Less(b, a) THEN b ELSE a

\* bar.goal > 0 ? Math.min((bar.current / bar.goal) * 100, 100) : 0
BarPercent(current, goal) ==
    IF Less(Num(0), ToNumber(goal))
    THEN RatMin(Times(Over(current, ToNumber(goal)), Num(100)), Num(100))
    ELSE Num(0)

\* ProgressManager.updateGoalProgress: the averages per day with meals and
\* the percentage of each bar
updateGoalProgress(ms, goals) ==
    LET daysWithMeals == getUniqueDaysWithMeals(ms)
        avgDays == IF Cardinality(daysWithMeals) = 0 THEN 1 ELSE Cardinality(daysWithMeals)
        totalNutrition == calculateTotalNutrition(ms)
        avgNutrition == [f \in DOMAIN totalNutrition |-> Over(totalNutrition[f], Num(avgDays))]
    IN  [current |-> avgNutrition,
         percentage |->
            [calories |-> BarPercent(avgNutrition.calories, goals.calorieGoal),
             protein |-> BarPercent(avgNutrition.protein, goals.proteinGoal),
             carbs |-> BarPercent(avgNutrition.carbs, goals.carbsGoal),
             fats |-> BarPercent(avgNutrition.fats, goals.fatsGoal)]]
----------------------------------------------------------------------------
(* Inputs of the profile page and the stored meals of the progress page *)

\* what the user can have typed into #goals-form
GoalsFormInputs ==
    [calorieGoal : {Num(999), Num(2000)},
     proteinGoal : {Null, Num(0), Num(150)},
     carbsGoal : {Num(200)},
     fatsGoal : {Num(0), Num(80)}]

\* what the user can have typed into #profile-form
ProfileFormInputs ==
    {EmptyProfileForm,
     [firstName |-> " Ada ", lastName |-> "", age |-> Num(30), gender |-> "female",
      height |-> Num(180), weight |-> Num(80), activityLevel |-> "moderate",
      goal |-> "maintain-weight"],
     [firstName |-> "", lastName |-> "", age |-> Num(12), gender |-> "male",
      height |-> Num(150), weight |-> Num(45), activityLevel |-> "active",
      goal |-> "stay-fit"]}

\* a stored meal of the planner: the k-th nutrition record of MealPool logged
\* for the day d, the n-th record of its millisecond
LoggedMeal(n, d, k) ==
    [id |-> <<0, n>>, date |-> d, mealType |-> "lunch", foodItem |-> "Chicken Breast",
     servingSize |-> "", dateAdded |-> 0] @@ MealPool[k]

\* the stored meals the progress page is opened on
ProgressStores ==
    {Absent,
     StorageSet(<<LoggedMeal(1, Today, 1), LoggedMeal(2, Today, 1), LoggedMeal(3, Today, 1)>>),
     StorageSet(<<LoggedMeal(1, Today - 1, 4), LoggedMeal(2, Today, 1),
                  LoggedMeal(3, Today, 1), LoggedMeal(4, Today, 1)>>)}

NoSummary == [called |-> FALSE]
NoProgress == [called |-> FALSE]
NoChart == [called |-> FALSE]

\* the time zone of a browser that keeps UTC
UtcZone == Zone(0, 0, 0)

ProgressIdle == caloriesChart = NoChart
ClockIdle == now = NewDate(Today) /\ tz = UtcZone /\ period = 7
StoreIdle == mealStore = Absent
GoalsIdle ==
    /\ profileForm = EmptyProfileForm /\ goalsForm = EmptyGoalsForm
    /\ profileItem = Absent /\ goalsItem = Absent /\ bmiItem = Absent
    /\ summary = NoSummary /\ goalProgress = NoProgress

----------------------------------------------------------------------------
(* Operations of the profile page, the planner summary and the progress bars *)

\* the user types into the goals form; handleGoalsChange does nothing
EditGoalsForm ==
    \E g \in GoalsFormInputs :
        /\ goalsForm' = g
        /\ UNCHANGED <<outsideGoals, clockVars, profileForm, profileItem,
                       goalsItem, bmiItem, summary, goalProgress>>

\* the user types into the profile form
EditProfileForm ==
    \E p \in ProfileFormInputs :
        /\ profileForm' = p
        /\ UNCHANGED <<outsideGoals, clockVars, goalsForm, profileItem,
                       goalsItem, bmiItem, summary, goalProgress>>

\* ProfilePageManager.saveProfile of js/profile.js; the dataRefresh event
\* makes what was rendered from the old goals stale
SaveProfile ==
    LET profileData == getFormData(profileForm, ProfileNumberInputs)
        goalsData == getFormData(goalsForm, GoalsNumberInputs)
    IN  /\ validateProfileData(profileData)
        /\ validateGoalsData(goalsData)
        /\ profileItem' = StorageSet(profileData)
        /\ goalsItem' = StorageSet(goalsData)
        /\ summary' = NoSummary /\ goalProgress' = NoProgress
        /\ notification' = Notice("success", "Profile saved successfully!", "")
        /\ UNCHANGED <<outsideProfilePage, clockVars, profileForm, goalsForm, bmiItem>>

\* ProfilePageManager.saveProfile of the profile page beside the planner,
\* which reads the forms with getAllFormData and stores the BMI
SaveProfileWrites(bmiOk, profileOk, goalsOk) ==
    LET profileData == getAllFormData(profileForm, ProfileNumberInputs)
        goalsData == getAllFormData(goalsForm, GoalsNumberInputs)
        bmiWritten == calculateAndSaveBMI(profileData, bmiItem, now)
    IN  /\ validateProfileData(profileData)
        /\ validateGoalsData(goalsData)
        /\ IF bmiWritten # bmiItem /\ ~bmiOk
           THEN \* localStorage.setItem('userBMI', ...) throws, uncaught
                UNCHANGED <<bmiItem, profileItem, goalsItem, summary, goalProgress,
                            notification>>
           ELSE /\ bmiItem' = bmiWritten
                /\ profileItem' = StorageWrite(profileItem, profileData, profileOk)
                /\ goalsItem' = StorageWrite(goalsItem, goalsData, goalsOk)
                /\ IF profileOk /\ goalsOk
                   THEN /\ summary' = NoSummary /\ goalProgress' = NoProgress
                        /\ notification' = Notice("success", "Profile saved successfully!", "")
                   ELSE /\ UNCHANGED <<summary, goalProgress>>
                        /\ notification' = Notice("error", "Failed to save profile. Please try again.", "")
        /\ UNCHANGED <<outsideProfilePage, clockVars, profileForm, goalsForm>>

\* saveProfile with every write succeeding
SaveProfileAllFormData == SaveProfileWrites(TRUE, TRUE, TRUE)

\* saveProfile with a write that throws: that of userBMI, of the profile or
\* of the goals
SaveProfileWriteThrows ==
    \E bmiOk \in BOOLEAN, profileOk \in BOOLEAN, goalsOk \in BOOLEAN :
        /\ ~(bmiOk /\ profileOk /\ goalsOk)
        /\ SaveProfileWrites(bmiOk, profileOk, goalsOk)

\* MealPlannerManager.calculateDailySummary over the meals of a date
CalculateDailySummary ==
    \E date \in {getCurrentDate(now) - 1, getCurrentDate(now)} :
        LET dayMeals == getMealsForDate(mealStore, date)
            goals == getGoals(goalsItem)
        IN  /\ summary' = [called |-> TRUE, date |-> date,
                           totalNutrition |-> calculateTotalNutrition(dayMeals),
                           goals |-> goals,
                           percentages |-> calculateDailySummary(dayMeals, goals)]
            /\ UNCHANGED <<outsideGoals, clockVars, profileForm, goalsForm,
                           profileItem, goalsItem, bmiItem, goalProgress>>

\* the progress bars as updateGoalProgress draws them for a period
GoalProgressFor(days) ==
    LET ms == getMealsForPeriod(mealStore, now, tz, days)
        goals == getGoals(goalsItem)
    IN  [called |-> TRUE, totalNutrition |-> calculateTotalNutrition(ms), goals |-> goals]
            @@ updateGoalProgress(ms, goals)

\* the calories trend chart as initializeCaloriesTrendChart draws it
CaloriesChartFor(days) ==
    LET ms == getMealsForPeriod(mealStore, now, tz, days)
    IN  [called |-> TRUE, days |-> days, meals |-> ms,
         data |-> caloriesTrend(ms, now, tz, days)]

\* ProgressManager at construction and on dataRefresh: loadProgressData and
\* the charts
UpdateGoalProgress ==
    /\ goalProgress' = GoalProgressFor(period)
    /\ caloriesChart' = CaloriesChartFor(period)
    /\ UNCHANGED <<outsideProgress, clockVars, profileForm, goalsForm,
                   profileItem, goalsItem, bmiItem, summary>>

\* ProgressManager.changePeriod(days), which refreshes the page
ChangePeriod ==
    \E days \in Periods :
        /\ days # period
        /\ period' = days
        /\ goalProgress' = GoalProgressFor(days)
        /\ caloriesChart' = CaloriesChartFor(days)
        /\ UNCHANGED <<outsideProgress, now, tz, profileForm, goalsForm,
                       profileItem, goalsItem, bmiItem, summary>>
----------------------------------------------------------------------------
(* Calories from macronutrients: the meal form of the planner and the      *)
(* macros breakdown chart of js/progress.js                                *)

MaxTenthGrams == 4

\* what the protein, carbs and fats inputs can hold: nothing, a negative
\* number, tenths of a gram, and two of the default meals' values
MacroTexts ==
    {Null, Rat(-1, 10), Num(20), Rat(534, 10)} \cup {Rat(n, 10) : n \in 0..MaxTenthGrams}

\* parseFloat(input.value) || 0
ParseFloatOrZero(text) == OrZero(text)

\* calculateCalories with fats counted at 4 calories a gram
calculateCalories_FatsBy4(inputs) ==
    LET protein == ParseFloatOrZero(inputs.protein)
        carbs == ParseFloatOrZero(inputs.carbs)
        fats == ParseFloatOrZero(inputs.fats)
        totalCalories == Plus(Plus(Times(protein, Num(4)), Times(carbs, Num(4))),
                              Times(fats, Num(4)))
    IN  IF Less(Num(0), totalCalories)
        THEN [written |-> TRUE, value |-> MathRound(totalCalories)]
        ELSE [written |-> FALSE, value |-> inputs.calories]

\* calculateCalories of setupMacroCalculation: whether it writes the calories
\* input, and what that input holds afterwards
calculateCalories(inputs) ==
    LET protein == ParseFloatOrZero(inputs.protein)
        carbs == ParseFloatOrZero(inputs.carbs)
        fats == ParseFloatOrZero(inputs.fats)
        totalCalories == Plus(Plus(Times(protein, Num(4)), Times(carbs, Num(4))),
                              Times(fats, Num(9)))
    IN  IF Less(Num(0), totalCalories)
        THEN [written |-> TRUE, value |-> MathRound(totalCalories)]
        ELSE [written |-> FALSE, value |-> inputs.calories]

\* the data of the pie chart: [proteinCalories, carbsCalories, fatsCalories]
macrosBreakdownData(ms) ==
    LET totalNutrition == calculateTotalNutrition(ms)
    IN  [proteinCalories |-> Times(totalNutrition.protein, Num(4)),
         carbsCalories |-> Times(totalNutrition.carbs, Num(4)),
         fatsCalories |-> Times(totalNutrition.fats, Num(9))]

\* the meal FormUtils.getFormData reads from the nutrition inputs
MealOfInputs(inputs) ==
    LET data == getFormData(inputs, DOMAIN inputs)
    IN  [f \in DOMAIN data |-> data[f].val]

NoAutoCalories == [called |-> FALSE]
NoBreakdown == [called |-> FALSE]
EmptyMacroInputs == [protein |-> Null, carbs |-> Null, fats |-> Null, calories |-> Null]

MacroIdle ==
    /\ macroInputs = EmptyMacroInputs
    /\ autoCalories = NoAutoCalories
    /\ macrosBreakdown = NoBreakdown

\* an input or blur event on the protein, carbs or fats input
CalculateCalories ==
    /\ autoCalories' = [called |-> TRUE] @@ calculateCalories(macroInputs)
    /\ macroInputs' = [macroInputs EXCEPT !.calories = calculateCalories(macroInputs).value]
    /\ UNCHANGED <<outsideMacros, macrosBreakdown>>

\* ProgressManager.initializeMacrosBreakdownChart over one meal with the
\* macros of the form
InitializeMacrosBreakdownChart ==
    /\ macrosBreakdown' =
          [called |-> TRUE] @@ macrosBreakdownData(<<MealOfInputs(macroInputs)>>)
    /\ UNCHANGED <<outsideMacros, macroInputs, autoCalories>>
----------------------------------------------------------------------------
(* ProgressAnalytics.calculateLinearTrend (js/progress.js) *)

TrendKinds == 5
MaxSeriesLen == 4

\* daily totals a series is made of
TrendPool == <<Num(100), Num(101), Num(110), Num(120), Num(130), Num(90), Num(0)>>

TrendKindsUsed == IF TrendKinds < Len(TrendPool) THEN TrendKinds ELSE Len(TrendPool)

SeriesInputs ==
    UNION {[1..n -> {TrendPool[i] : i \in 1..TrendKindsUsed}] : n \in 0..MaxSeriesLen}

\* array.reduce((a, b) => a + b, 0)
RECURSIVE SumSeq(_)
SumSeq(s) == IF s = <<>> THEN Num(0) ELSE Plus(Head(s), SumSeq(Tail(s)))

\* calculateLinearTrend with the thresholds themselves counted as a trend
calculateLinearTrend_InclusiveThresholds(values) ==
    IF Len(values) < 2 THEN [slope |-> Num(0), direction |-> "stable"]
    ELSE LET n == Len(values)
             x == [i \in 1..n |-> Num(i - 1)]
             sumX == SumSeq(x)
             sumY == SumSeq(values)
             sumXY == SumSeq([i \in 1..n |-> Times(x[i], values[i])])
             sumXX == SumSeq([i \in 1..n |-> Times(x[i], x[i])])
             slope == Over(Minus(Times(Num(n), sumXY), Times(sumX, sumY)),
                           Minus(Times(Num(n), sumXX), Times(sumX, sumX)))
         IN  [slope |-> slope,
              direction |-> IF LessEq(Rat(1, 10), slope) THEN "increasing"
                            ELSE IF LessEq(slope, Rat(-1, 10)) THEN "decreasing"
                            ELSE "stable"]

calculateLinearTrend(values) ==
    IF Len(values) < 2 THEN [slope |-> Num(0), direction |-> "stable"]
    ELSE LET n == Len(values)
             x == [i \in 1..n |-> Num(i - 1)]
             sumX == SumSeq(x)
             sumY == SumSeq(values)
             sumXY == SumSeq([i \in 1..n |-> Times(x[i], values[i])])
             sumXX == SumSeq([i \in 1..n |-> Times(x[i], x[i])])
             slope == Over(Minus(Times(Num(n), sumXY), Times(sumX, sumY)),
                           Minus(Times(Num(n), sumXX), Times(sumX, sumX)))
         IN  [slope |-> slope,
              direction |-> IF Less(Rat(1, 10), slope) THEN "increasing"
                            ELSE IF Less(slope, Rat(-1, 10)) THEN "decreasing"
                            ELSE "stable"]

NoTrend == [called |-> FALSE]

TrendIdle == series = <<>> /\ trend = NoTrend

\* ProgressAnalytics.calculateLinearTrend(values)
CalculateLinearTrend ==
    /\ trend' = [called |-> TRUE, values |-> series] @@ calculateLinearTrend(series)
    /\ UNCHANGED <<outsideTrend, series>>

\* the next day's total joins the series
AppendDay ==
    \E v \in {TrendPool[i] : i \in 1..TrendKindsUsed} :
        /\ Len(series) < MaxSeriesLen
        /\ series' = Append(series, v)
        /\ trend' = NoTrend
        /\ UNCHANGED outsideTrend
----------------------------------------------------------------------------
(* ProgressAnalytics.calculateStreaks (js/progress.js) *)

MaxStreakDays == 4

\* time zones of the browser: UTC, one ahead of UTC with no clock change
\* (Tokyo), and two whose clocks went back an hour yesterday, at 01:00 UTC
\* (Berlin, 03:00 to 02:00) and at 06:00 UTC (New York, 02:00 to 01:00)
TimeZones ==
    {UtcZone,
     Zone(9, 9, 0),
     Zone(2, 1, NewDate(Today - 1) + 1),
     Zone(-4, -5, NewDate(Today - 1) + 6)}

\* the days meals can be logged on: up to tomorrow
StreakDays == (Today - MaxStreakDays)..(Today + 1)

Max(S) == CHOOSE d \in S : \A e \in S : e <= d
Min(S) == CHOOSE d \in S : \A e \in S : d <= e

\* a stored array with two meals on the latest date of S and one on every
\* other date, the latest date first
RECURSIVE MealsOn(_)
MealsOn(S) ==
    IF S = {} THEN <<>>
    ELSE <<LoggedMeal(Max(S), Max(S), 1)>> \o MealsOn(S \ {Max(S)})

StreakStores ==
    {IF S = {} THEN Absent ELSE StorageSet(<<LoggedMeal(0, Max(S), 4)>> \o MealsOn(S)) :
        S \in SUBSET StreakDays}

\* ProgressAnalytics.getUniqueDates
getUniqueDates(ms) == {ms[i].date : i \in 1..Len(ms)}

\* array.sort() of date strings
RECURSIVE Sorted(_)
Sorted(S) == IF S = {} THEN <<>> ELSE <<Min(S)>> \o Sorted(S \ {Min(S)})

\* uniqueDates.indexOf(date), from 0
IndexOf(uniqueDates, date) == Cardinality({d \in uniqueDates : d < date})

\* prevDate = new Date(checkDate); prevDate.setDate(prevDate.getDate() - 1);
\* DateUtils.formatDate(prevDate)
PrevDateString(z, checkDate) == formatDate(SetDateBack(z, NewDate(checkDate), 1))

\* the while loop that counts backwards from today or yesterday
RECURSIVE CountBackwards(_, _, _, _)
CountBackwards(z, uniqueDates, checkDate, currentStreak) ==
    IF IndexOf(uniqueDates, checkDate) > 0
    THEN IF PrevDateString(z, checkDate) \in uniqueDates
         THEN CountBackwards(z, uniqueDates, PrevDateString(z, checkDate), currentStreak + 1)
         ELSE currentStreak
    ELSE currentStreak

\* the for loop over the sorted dates: <<longestStreak, tempStreak>> after
\* the first i dates
RECURSIVE ScanStreaks(_, _)
ScanStreaks(dates, i) ==
    IF i <= 1 THEN <<0, 1>>
    ELSE LET before == ScanStreaks(dates, i - 1)
             dayDiff == Over(Num(NewDate(dates[i]) - NewDate(dates[i - 1])), Num(HoursPerDay))
         IN  IF dayDiff = Num(1) THEN <<before[1], before[2] + 1>>
             ELSE <<IF before[1] > before[2] THEN before[1] ELSE before[2], 1>>

calculateStreaks(ms, t, z) ==
    IF Len(ms) = 0 THEN [current |-> 0, longest |-> 0]
    ELSE LET uniqueDates == getUniqueDates(ms)
             today == formatDate(t)
             yesterday == formatDate(t - HoursPerDay)
             scan == ScanStreaks(Sorted(uniqueDates), Cardinality(uniqueDates))
         IN  [current |->
                 IF today \in uniqueDates \/ yesterday \in uniqueDates
                 THEN CountBackwards(z, uniqueDates,
                                     IF today \in uniqueDates THEN today ELSE yesterday, 1)
                 ELSE 0,
              longest |-> IF scan[1] > scan[2] THEN scan[1] ELSE scan[2]]

NoStreaks == [called |-> FALSE]

StreaksIdle == streaks = NoStreaks

\* ProgressAnalytics.calculateStreaks over the stored meals
CalculateStreaks ==
    /\ streaks' = [called |-> TRUE] @@ calculateStreaks(getAllMeals(mealStore), now, tz)
    /\ UNCHANGED <<outsideStreaks, clockVars, storeVars>>
----------------------------------------------------------------------------
(* The stored meal collection (StorageManager and MealManager of js/app.js) *)

MaxCalls == 3
MaxRandom == 2
MaxTicks == 1

\* the values Math.random() can return
RandomPool == 1..MaxRandom

\* Date.now().toString(36) + Math.random().toString(36).substr(2): the text of
\* the clock's reading followed by the text of the random number
generateId(t, r) == <<t, r>>

\* { ...meal, id: this.generateId(), dateAdded: new Date().toISOString() }
mealWithId(meal, t, r) ==
    [f \in DOMAIN meal \cup {"id", "dateAdded"} |->
        IF f = "id" THEN generateId(t, r)
        ELSE IF f = "dateAdded" THEN t
        ELSE meal[f]]

\* MealManager.saveMeal: the item it leaves
saveMeal(item, meal, t, r, ok) ==
    StorageWrite(item, Append(getAllMeals(item), mealWithId(meal, t, r)), ok)

\* MealManager.saveMeal: what it returns, which is what StorageManager.set returns
saveMealReturns(item, meal, t, r, ok) ==
    StorageManager_set(item, Append(getAllMeals(item), mealWithId(meal, t, r)), ~ok).returned

\* deleteMeal filtering on the wrong side
deleteMeal_KeepsOnlyId(item, mealId, ok) ==
    StorageWrite(item, SelectSeq(getAllMeals(item), LAMBDA meal : meal.id = mealId), ok)

\* MealManager.deleteMeal: the item it leaves
deleteMeal(item, mealId, ok) ==
    StorageWrite(item, SelectSeq(getAllMeals(item), LAMBDA meal : meal.id # mealId), ok)

\* MealManager.deleteMeal: what it returns
deleteMealReturns(item, mealId, ok) ==
    StorageManager_set(item, SelectSeq(getAllMeals(item), LAMBDA meal : meal.id # mealId),
                       ~ok).returned

\* meal objects as the pages hand them to saveMeal
MealInputs ==
    {[date |-> Today, mealType |-> "lunch", foodItem |-> "Chicken Breast",
      servingSize |-> "150g"] @@ MealPool[1],
     [date |-> Today - 1, mealType |-> "snack", foodItem |-> "Apple",
      servingSize |-> ""] @@ MealPool[2]}

\* the ids of the stored meals
StoredIds(item) == {getAllMeals(item)[i].id : i \in 1..Len(getAllMeals(item))}

----------------------------------------------------------------------------
(* Operations on the stored meal collection *)

\* MealManager.saveMeal(meal)
SaveMeal ==
    \E meal \in MealInputs, r \in RandomPool, ok \in BOOLEAN :
        /\ Len(mealLog) < MaxCalls
        /\ mealStore' = saveMeal(mealStore, meal, now, r, ok)
        /\ mealLog' = Append(mealLog, [op |-> "saveMeal", meal |-> meal,
                                       id |-> generateId(now, r), threw |-> ~ok,
                                       returned |-> saveMealReturns(mealStore, meal, now, r, ok)])
        /\ UNCHANGED <<outsidePlanner, clockVars, pageVars>>

\* MealManager.deleteMeal(mealId), with the id of a stored meal or another
DeleteMeal ==
    \E mealId \in StoredIds(mealStore) \cup {generateId(now, 1)}, ok \in BOOLEAN :
        /\ Len(mealLog) < MaxCalls
        /\ mealStore' = deleteMeal(mealStore, mealId, ok)
        /\ mealLog' = Append(mealLog, [op |-> "deleteMeal", id |-> mealId, threw |-> ~ok,
                                       returned |-> deleteMealReturns(mealStore, mealId, ok)])
        /\ UNCHANGED <<outsidePlanner, clockVars, pageVars>>

\* time passes
Tick ==
    /\ now < NewDate(Today) + MaxTicks
    /\ now' = now + 1
    /\ UNCHANGED <<outsidePlanner, tz, period, storeVars, plannerVars>>
----------------------------------------------------------------------------
(* Texts of meals: what the string operations of the pages make of them *)

\* a food name that is markup, and one that closes the attribute it is put in
MarkupText == "<img src=x onerror=alert(1)>"
QuoteText == "\" onmouseover=\"alert(1)"

\* type.charAt(0).toUpperCase() + type.slice(1)
Capitalize(type) ==
    CASE type = "breakfast" -> "Breakfast"
      [] type = "lunch" -> "Lunch"
      [] type = "dinner" -> "Dinner"
      [] type = "snack" -> "Snack"
      [] type = "other" -> "Other"
      [] OTHER -> type

\* foodItem.length > 15 ? foodItem.substring(0, 15) + '...' : foodItem
Truncate15(s) ==
    CASE s = "<img src=x onerror=alert(1)>" -> "<img src=x oner..."
      [] s = "&lt;img src=x onerror=alert(1)&gt;" -> "&lt;img src=x o..."
      [] s = "\" onmouseover=\"alert(1)" -> "\" onmouseover=\"..."
      [] s = "Mac &amp; Cheese" -> "Mac &amp; Chees..."
      [] s = "Grilled Chicken Breast" -> "Grilled Chicken..."
      [] s = "Greek Yogurt with Berries" -> "Greek Yogurt wi..."
      [] s = "Salmon with Sweet Potato" -> "Salmon with Swe..."
      [] s = "Protein Smoothie" -> "Protein Smoothi..."
      [] s = "Oatmeal with Banana" -> "Oatmeal with Ba..."
      [] OTHER -> s

\* the place of a food name in the order of a.foodItem.localeCompare(b.foodItem)
NameRank(s) ==
    CASE s = QuoteText -> 1
      [] s = "&lt;img src=x onerror=alert(1)&gt;" -> 2
      [] s = MarkupText -> 3
      [] s = "Greek Yogurt with Berries" -> 4
      [] s = "Grilled Chicken Breast" -> 5
      [] s = "Mac & Cheese" -> 6
      [] s = "Mac &amp; Cheese" -> 7
      [] s = "Oatmeal with Banana" -> 8
      [] s = "Protein Smoothie" -> 9
      [] s = "Quinoa Salad" -> 10
      [] s = "Salmon with Sweet Potato" -> 11
      [] OTHER -> 0

----------------------------------------------------------------------------
(* The meal form (MealPlannerManager beside FormUtils and ValidationUtils) *)

MealNumberInputs == {"calories", "protein", "carbs", "fats"}

\* the value of a date input nothing was chosen in
NoDate == 0

\* form.reset(): every input of #meal-form empty
EmptyMealForm ==
    [date |-> NoDate, mealType |-> "", foodItem |-> "", servingSize |-> "",
     calories |-> Null, protein |-> Null, carbs |-> Null, fats |-> Null]

\* FormUtils.getFormData(form) of the meal form: a number input gives a number
\* or null, a date input its date, any other input its sanitized text
getMealFormData(form) ==
    LET data == getFormData([f \in DOMAIN form \ {"date"} |-> form[f]], MealNumberInputs)
    IN  [f \in DOMAIN form |->
            IF f = "date" THEN form.date
            ELSE IF f \in MealNumberInputs THEN data[f].val
            ELSE data[f]]

\* !data[field] || data[field].toString().trim() === ''
FieldMissing(data, f) ==
    IF f \in MealNumberInputs THEN Falsy(data[f])
    ELSE IF f = "date" THEN data[f] = NoDate
    ELSE Trim(data[f]) = ""

\* ValidationUtils.validateRequired(data, requiredFields).isValid
validateRequired(data, requiredFields) == \A f \in requiredFields : ~FieldMissing(data, f)

\* the field of validation.errors: every() stops at the first field missing,
\* and FormUtils.showErrors shows '${field} is required' for it
firstMissing(data, requiredFields) ==
    requiredFields[CHOOSE i \in 1..Len(requiredFields) :
                       /\ FieldMissing(data, requiredFields[i])
                       /\ \A j \in 1..(i - 1) : ~FieldMissing(data, requiredFields[j])]

\* requiredFields of handleFormSubmit
MealFormFields == <<"date", "mealType", "foodItem", "calories", "protein", "carbs", "fats">>
Range(fields) == {fields[i] : i \in 1..Len(fields)}

----------------------------------------------------------------------------
(* The meal library (MealLibraryManager of js/app.js) *)

\* the id 'default_n', which no generated id spells
DefaultId(n) == <<-1, n>>

DefaultMeal(n, foodItem, calories, protein, carbs, fats, servingSize, mealType, t) ==
    [id |-> DefaultId(n), foodItem |-> foodItem, calories |-> calories,
     protein |-> protein, carbs |-> carbs, fats |-> fats, servingSize |-> servingSize,
     mealType |-> mealType, isDefault |-> TRUE, dateAdded |-> t]

\* MealLibraryManager.getDefaultMeals()
getDefaultMeals(t) ==
    << DefaultMeal(1, "Grilled Chicken Breast", Num(284), Rat(534, 10), Num(0), Rat(62, 10),
                   "150g", "lunch", t),
       DefaultMeal(2, "Greek Yogurt with Berries", Num(150), Num(15), Num(20), Num(2),
                   "1 cup", "breakfast", t),
       DefaultMeal(3, "Quinoa Salad", Num(320), Num(12), Num(58), Num(6),
                   "1 cup", "lunch", t),
       DefaultMeal(4, "Salmon with Sweet Potato", Num(450), Num(35), Num(45), Num(15),
                   "200g salmon + 150g sweet potato", "dinner", t),
       DefaultMeal(5, "Protein Smoothie", Num(280), Num(25), Num(35), Num(5),
                   "1 large glass", "snack", t),
       DefaultMeal(6, "Oatmeal with Banana", Num(300), Num(10), Num(54), Num(6),
                   "1 bowl", "breakfast", t) >>

\* MealLibraryManager.getLibraryMeals()
getLibraryMeals(item, t) == StorageGet(item, getDefaultMeals(t))

\* { ...meal, id: MealManager.generateId(), dateAdded: ..., isDefault: false }
libraryMealOf(meal, t, r) ==
    [f \in DOMAIN meal \cup {"id", "dateAdded", "isDefault"} |->
        IF f = "id" THEN generateId(t, r)
        ELSE IF f = "dateAdded" THEN t
        ELSE IF f = "isDefault" THEN FALSE
        ELSE meal[f]]

\* MealLibraryManager.saveToLibrary: the item it leaves
saveToLibrary(item, meal, t, r, ok) ==
    StorageWrite(item, Append(getLibraryMeals(item, t), libraryMealOf(meal, t, r)), ok)

\* MealLibraryManager.deleteFromLibrary: the item it leaves
deleteFromLibrary(item, mealId, t, ok) ==
    StorageWrite(item, SelectSeq(getLibraryMeals(item, t), LAMBDA meal : meal.id # mealId), ok)

\* a check that lets every meal be deleted
refusesDelete_Never(meal) == FALSE

\* if (meal.isDefault) of deleteLibraryMeal
refusesDelete(meal) == meal.isDefault

\* libraryMeals.find(m => m.id === mealId): the place of the first such meal,
\* 0 for undefined
FindById(ms, mealId) ==
    IF \E i \in 1..Len(ms) : ms[i].id = mealId
    THEN CHOOSE i \in 1..Len(ms) :
            /\ ms[i].id = mealId
            /\ \A j \in 1..(i - 1) : ms[j].id # mealId
    ELSE 0

\* the mealData object quickAddMeal and addMealToPlan build from a library meal
mealDataOf(meal, date) ==
    [date |-> date,
     mealType |-> IF meal.mealType = "" THEN "snack" ELSE meal.mealType,
     foodItem |-> meal.foodItem, calories |-> meal.calories, protein |-> meal.protein,
     carbs |-> meal.carbs, fats |-> meal.fats, servingSize |-> meal.servingSize]

----------------------------------------------------------------------------
(* The week of the planner (DateUtils of js/app.js) *)

\* d.getDay(): 0 for Sunday; day 0 is a Thursday, as 1970-01-01 was
getDay(z, t) == ((LocalTime(z, t) \div HoursPerDay) + 4) % 7

\* DateUtils.getWeekStart(): the present instant moved back to Monday
getWeekStart(z, t) ==
    LET day == getDay(z, t)
    IN  SetDateBack(z, t, IF day = 0 THEN 6 ELSE day - 1)

\* DateUtils.getWeekDates()
getWeekDates(z, t) ==
    [i \in 1..7 |-> formatDate(SetDateBack(z, getWeekStart(z, t), -(i - 1)))]

\* MealManager.getWeekMeals()
getWeekMeals(item, z, t) ==
    LET weekDates == getWeekDates(z, t)
    IN  SelectSeq(getAllMeals(item),
                  LAMBDA meal : \E i \in 1..7 : weekDates[i] = meal.date)

----------------------------------------------------------------------------
(* What the pages write into their containers: of each piece of HTML the    *)
(* texts that come from a meal                                              *)

\* MealPlannerManager.renderMealCard
renderMealCard(meal) ==
    [mealId |-> meal.id,
     foodItem |-> sanitizeHTML(meal.foodItem),
     servingSize |-> IF meal.servingSize # "" THEN sanitizeHTML(meal.servingSize) ELSE ""]

\* meal.mealType || 'other'
TypeOf(meal) == IF meal.mealType = "" THEN "other" ELSE meal.mealType

\* the keys of groupMealsByType(meals), in the order they were added
RECURSIVE TypesInOrder(_)
TypesInOrder(ms) ==
    IF ms = <<>> THEN <<>>
    ELSE LET before == TypesInOrder(SubSeq(ms, 1, Len(ms) - 1))
             type == TypeOf(ms[Len(ms)])
         IN  IF \E i \in 1..Len(before) : before[i] = type THEN before
             ELSE Append(before, type)

\* MealPlannerManager.loadTodaysMeals: the sections of #todays-meals
loadTodaysMeals(item, date) ==
    LET todaysMeals == getMealsForDate(item, date)
        types == TypesInOrder(todaysMeals)
    IN  [i \in 1..Len(types) |->
            LET typeMeals == SelectSeq(todaysMeals, LAMBDA meal : TypeOf(meal) = types[i])
            IN  [title |-> Capitalize(types[i]),
                 cards |-> [j \in 1..Len(typeMeals) |-> renderMealCard(typeMeals[j])]]]

\* MealPlannerManager.loadWeeklyOverview: the day cards of #week-grid
loadWeeklyOverview(item, z, t, date) ==
    LET weekDates == getWeekDates(z, t)
        weekMeals == getWeekMeals(item, z, t)
    IN  [i \in 1..7 |->
            LET dayMeals == SelectSeq(weekMeals, LAMBDA meal : meal.date = weekDates[i])
                shown == IF Len(dayMeals) > 3 THEN 3 ELSE Len(dayMeals)
            IN  [date |-> weekDates[i],
                 currentDay |-> weekDates[i] = date,
                 calories |-> calculateTotalNutrition(dayMeals).calories,
                 count |-> Len(dayMeals),
                 meals |-> [j \in 1..shown |->
                              [title |-> sanitizeHTML(dayMeals[j].foodItem),
                               text |-> Truncate15(dayMeals[j].foodItem)]]]]

\* sortedMeals.sort((a, b) => a.foodItem.localeCompare(b.foodItem)), a stable sort
RECURSIVE SortByName(_)
SortByName(ms) ==
    IF ms = <<>> THEN <<>>
    ELSE LET before == SortByName(SubSeq(ms, 1, Len(ms) - 1))
             last == ms[Len(ms)]
             keep == Cardinality({i \in 1..Len(before) :
                                    NameRank(before[i].foodItem) <= NameRank(last.foodItem)})
         IN  SubSeq(before, 1, keep) \o <<last>> \o SubSeq(before, keep + 1, Len(before))

\* MealLibraryPageManager.formatMealType
formatMealType(type) == IF type = "" THEN "Other" ELSE Capitalize(type)

\* MealLibraryPageManager.renderLibraryMealCard
renderLibraryMealCard(meal) ==
    [mealId |-> meal.id,
     isDefault |-> meal.isDefault,
     ariaLabel |-> sanitizeHTML(meal.foodItem),
     foodItem |-> sanitizeHTML(meal.foodItem),
     mealType |-> formatMealType(meal.mealType),
     servingSize |-> IF meal.servingSize # "" THEN sanitizeHTML(meal.servingSize) ELSE "",
     deleteButton |-> ~meal.isDefault]

\* MealLibraryPageManager.filterAndDisplayMeals with no search term and no
\* filter: the cards of #library-grid, which stays as it is for no meals
displayMeals(item, t, grid) ==
    LET ms == SortByName(getLibraryMeals(item, t))
    IN  IF Len(ms) = 0 THEN grid
        ELSE [i \in 1..Len(ms) |-> renderLibraryMealCard(ms[i])]

NoPage == [todaysMeals |-> <<>>, weekGrid |-> <<>>, libraryGrid |-> <<>>]

\* MealPlannerManager.refreshData: loadTodaysMeals and loadWeeklyOverview
PlannerPage(item, z, t, date) ==
    [todaysMeals |-> loadTodaysMeals(item, date),
     weekGrid |-> loadWeeklyOverview(item, z, t, date),
     libraryGrid |-> <<>>]

\* MealLibraryPageManager.refreshData: loadLibraryMeals
LibraryPage(item, t, grid) ==
    [todaysMeals |-> <<>>, weekGrid |-> <<>>, libraryGrid |-> displayMeals(item, t, grid)]

----------------------------------------------------------------------------
(* Inputs of the planner and library pages *)

MaxPlannerCalls == 1
MaxLibraryMeals == 1

\* what the user can have typed into #meal-form, the date apart
MealFormTexts ==
    {[EmptyMealForm EXCEPT !.mealType = "lunch", !.foodItem = "Mac & Cheese",
        !.servingSize = "1 cup", !.calories = Num(150), !.protein = Num(15),
        !.carbs = Num(20), !.fats = Num(2)],
     [EmptyMealForm EXCEPT !.mealType = "snack", !.foodItem = "Mac & Cheese",
        !.calories = Num(-50), !.protein = Num(10), !.carbs = Num(5), !.fats = Num(1)],
     [EmptyMealForm EXCEPT !.mealType = "dinner", !.foodItem = MarkupText,
        !.servingSize = MarkupText, !.calories = Num(300), !.protein = Num(10),
        !.carbs = Num(54), !.fats = Num(6)],
     [EmptyMealForm EXCEPT !.mealType = "lunch", !.foodItem = QuoteText,
        !.calories = Num(300), !.protein = Num(10), !.carbs = Num(54), !.fats = Num(6)],
     [EmptyMealForm EXCEPT !.mealType = "lunch", !.foodItem = "Quinoa Salad",
        !.servingSize = "150g", !.calories = Num(284), !.protein = Rat(534, 10),
        !.carbs = Num(0), !.fats = Rat(62, 10)],
     EmptyMealForm}

\* the dates the user can choose in #meal-date
MealDates == {Today - 1, Today}

\* the files handed to importLibraryData: an export of another library, a
\* file written by hand, a file that is no export
ImportFiles ==
    {[meals |-> << [foodItem |-> "Quinoa Salad", mealType |-> "lunch", servingSize |-> "",
                    calories |-> Num(320), protein |-> Num(12), carbs |-> Num(58),
                    fats |-> Num(6), id |-> DefaultId(3), isDefault |-> TRUE] >>],
     [meals |-> << [foodItem |-> MarkupText, mealType |-> MarkupText,
                    servingSize |-> MarkupText, calories |-> Num(-100),
                    protein |-> Num(-1), carbs |-> Num(10), fats |-> Num(5)] >>],
     [version |-> "1.0.0"]}

\* the meals of the library that are not default meals
UserMeals(ms) == SelectSeq(ms, LAMBDA meal : ~meal.isDefault)

\* the cards the user clicks: those of the meals added to the library and
\* that of the first default meal
ClickedIds(ms) == {ms[i].id : i \in {j \in 1..Len(ms) : ~ms[j].isDefault \/ ms[j].id = DefaultId(1)}}

PageIdle ==
    /\ openPage = "" /\ currentDate = NoDate /\ mealForm = EmptyMealForm
    /\ libraryItem = Absent /\ notification = NoNotice /\ page = NoPage
PlannerIdle == mealLog = <<>> /\ PageIdle

----------------------------------------------------------------------------
(* Operations of the meal planner page *)

\* new MealPlannerManager() on meal-planner.html
OpenMealPlanner ==
    /\ openPage' = "meal-planner"
    /\ currentDate' = getCurrentDate(now)
    /\ mealForm' = [EmptyMealForm EXCEPT !.date = getCurrentDate(now)]
    /\ page' = PlannerPage(mealStore, tz, now, getCurrentDate(now))
    /\ notification' = NoNotice
    /\ UNCHANGED <<outsidePlanner, clockVars, storeVars, mealLog, libraryItem>>

\* the user types into the meal form
EditMealForm ==
    \E form \in MealFormTexts :
        /\ openPage = "meal-planner"
        /\ mealForm' = [form EXCEPT !.date = mealForm.date]
        /\ UNCHANGED <<outsidePlanner, clockVars, storeVars, mealLog, openPage,
                       currentDate, libraryItem, notification, page>>

\* the user picks a date in #meal-date.  The class defines setupEventListeners
\* twice and the later definition, which registers no change handler, is the
\* method init() calls: the input changes and nothing else
ChangeMealDate ==
    \E date \in MealDates :
        /\ openPage = "meal-planner"
        /\ mealForm' = [mealForm EXCEPT !.date = date]
        /\ UNCHANGED <<outsidePlanner, clockVars, storeVars, mealLog, openPage,
                       currentDate, libraryItem, notification, page>>

\* MealPlannerManager.selectDate(date), the click on a day card of the week
\* grid: currentDate, the date input, loadTodaysMeals, updateWeekGridHighlight
SelectDate ==
    \E i \in 1..Len(page.weekGrid) :
        LET date == page.weekGrid[i].date
        IN  /\ openPage = "meal-planner"
            /\ date \in MealDates
            /\ currentDate' = date
            /\ mealForm' = [mealForm EXCEPT !.date = date]
            /\ page' = [page EXCEPT
                            !.todaysMeals = loadTodaysMeals(mealStore, date),
                            !.weekGrid = [k \in 1..Len(page.weekGrid) |->
                                [page.weekGrid[k] EXCEPT
                                    !.currentDay = page.weekGrid[k].date = date]]]
            /\ UNCHANGED <<outsidePlanner, clockVars, storeVars, mealLog, openPage,
                           libraryItem, notification>>

\* MealManager.saveMeal(meal) called by a page
SaveAndLog(meal, r, ok) ==
    /\ mealStore' = saveMeal(mealStore, meal, now, r, ok)
    /\ mealLog' = Append(mealLog, [op |-> "saveMeal", meal |-> meal,
                                   id |-> generateId(now, r), threw |-> ~ok,
                                   returned |-> saveMealReturns(mealStore, meal, now, r, ok)])

\* MealPlannerManager.handleFormSubmit
HandleFormSubmit ==
    LET formData == getMealFormData(mealForm)
    IN  /\ openPage = "meal-planner"
        /\ Len(mealLog) < MaxPlannerCalls
        /\ IF ~validateRequired(formData, Range(MealFormFields))
           THEN /\ notification' = Notice("error", "${field} is required",
                                         firstMissing(formData, MealFormFields))
                /\ UNCHANGED <<storeVars, mealLog, openPage, currentDate, mealForm,
                               libraryItem, page>>
           ELSE IF ~isValidNumber(JsNum(formData.calories), 1, 10000)
           THEN /\ notification' = Notice("error", "Please enter a valid calorie amount (1-10000)", "")
                /\ UNCHANGED <<storeVars, mealLog, openPage, currentDate, mealForm,
                               libraryItem, page>>
           ELSE IF \/ ~isValidNumber(JsNum(formData.protein), 0, 1000)
                   \/ ~isValidNumber(JsNum(formData.carbs), 0, 1000)
                   \/ ~isValidNumber(JsNum(formData.fats), 0, 1000)
           THEN /\ notification' = Notice("error", "Please enter valid macro amounts (0-1000g)", "")
                /\ UNCHANGED <<storeVars, mealLog, openPage, currentDate, mealForm,
                               libraryItem, page>>
           ELSE \E r \in RandomPool, ok \in BOOLEAN :
                    /\ SaveAndLog(formData, r, ok)
                    /\ IF ok
                       THEN /\ notification' = Notice("success", "Meal added successfully!", "")
                            /\ mealForm' = [EmptyMealForm EXCEPT !.date = currentDate]
                            /\ page' = PlannerPage(mealStore', tz, now, currentDate)
                       ELSE /\ notification' = Notice("error", "Failed to save meal. Please try again.", "")
                            /\ UNCHANGED <<mealForm, page>>
                    /\ UNCHANGED <<openPage, currentDate, libraryItem>>
        /\ UNCHANGED <<outsidePlanner, clockVars>>

\* MealPlannerManager.handleSaveToLibrary
HandleSaveToLibrary ==
    LET formData == getMealFormData(mealForm)
    IN  /\ openPage = "meal-planner"
        /\ Len(UserMeals(getLibraryMeals(libraryItem, now))) < MaxLibraryMeals
        /\ IF ~validateRequired(formData, {"foodItem", "calories", "protein", "carbs", "fats"})
           THEN /\ notification' = Notice("error", "Please fill in all nutrition information before saving to library", "")
                /\ UNCHANGED libraryItem
           ELSE \E r \in RandomPool, ok \in BOOLEAN :
                    /\ libraryItem' = saveToLibrary(libraryItem, formData, now, r, ok)
                    /\ notification' =
                          IF ok THEN Notice("success", "Meal saved to library!", "")
                          ELSE Notice("error", "Failed to save meal to library. Please try again.", "")
        /\ UNCHANGED <<outsidePlanner, clockVars, storeVars, mealLog, openPage,
                       currentDate, mealForm, page>>

\* MealPlannerManager.quickAddMeal(mealId), from a card of showQuickAddOptions,
\* which shows the first six meals of the library
QuickAddMeal ==
    LET libraryMeals == getLibraryMeals(libraryItem, now)
        cards == SubSeq(libraryMeals, 1, IF Len(libraryMeals) > 6 THEN 6 ELSE Len(libraryMeals))
    IN  \E mealId \in ClickedIds(cards), r \in RandomPool, ok \in BOOLEAN :
            LET libraryMeal == libraryMeals[FindById(libraryMeals, mealId)]
            IN  /\ openPage = "meal-planner"
                /\ Len(mealLog) < MaxPlannerCalls
                /\ SaveAndLog(mealDataOf(libraryMeal, currentDate), r, ok)
                /\ IF ok
                   THEN /\ notification' = Notice("success", "added to", libraryMeal.foodItem)
                        /\ page' = PlannerPage(mealStore', tz, now, currentDate)
                   ELSE /\ notification' = Notice("error", "Failed to add meal. Please try again.", "")
                        /\ UNCHANGED page
                /\ UNCHANGED <<outsidePlanner, clockVars, openPage, currentDate,
                               mealForm, libraryItem>>

\* the delete button of a meal card: MealPlannerManager.deleteMeal(mealId),
\* confirmed
DeleteMealConfirmed ==
    \E i \in 1..Len(page.todaysMeals), ok \in BOOLEAN :
      \E j \in 1..Len(page.todaysMeals[i].cards) :
        LET mealId == page.todaysMeals[i].cards[j].mealId
        IN  /\ openPage = "meal-planner"
            /\ Len(mealLog) <= MaxPlannerCalls
            /\ mealStore' = deleteMeal(mealStore, mealId, ok)
            /\ mealLog' = Append(mealLog, [op |-> "deleteMeal", id |-> mealId, threw |-> ~ok,
                                          returned |-> deleteMealReturns(mealStore, mealId, ok)])
            /\ IF ok
               THEN /\ notification' = Notice("success", "Meal deleted successfully!", "")
                    /\ page' = PlannerPage(mealStore', tz, now, currentDate)
               ELSE /\ notification' = Notice("error", "Failed to delete meal. Please try again.", "")
                    /\ UNCHANGED page
            /\ UNCHANGED <<outsidePlanner, clockVars, openPage, currentDate,
                           mealForm, libraryItem>>

----------------------------------------------------------------------------
(* Operations of the meal library page *)

\* new MealLibraryPageManager() on meal-library.html
OpenMealLibrary ==
    /\ openPage' = "meal-library"
    /\ currentDate' = NoDate
    /\ mealForm' = EmptyMealForm
    /\ page' = LibraryPage(libraryItem, now, <<>>)
    /\ notification' = NoNotice
    /\ UNCHANGED <<outsidePlanner, clockVars, storeVars, mealLog, libraryItem>>

\* MealLibraryPageManager.quickAddMeal(mealId) and addMealToPlan(meal), from
\* the Quick Add button of a card
AddMealToPlan ==
    LET libraryMeals == getLibraryMeals(libraryItem, now)
    IN  \E mealId \in ClickedIds(libraryMeals), r \in RandomPool, ok \in BOOLEAN :
            LET meal == libraryMeals[FindById(libraryMeals, mealId)]
            IN  /\ openPage = "meal-library"
                /\ Len(mealLog) < MaxPlannerCalls
                /\ SaveAndLog(mealDataOf(meal, getCurrentDate(now)), r, ok)
                /\ IF ok
                   THEN /\ notification' = Notice("success", "added to today's plan!", meal.foodItem)
                        /\ page' = LibraryPage(libraryItem, now, page.libraryGrid)
                   ELSE /\ notification' = Notice("error", "Failed to add meal to plan. Please try again.", "")
                        /\ UNCHANGED page
                /\ UNCHANGED <<outsidePlanner, clockVars, openPage, currentDate,
                               mealForm, libraryItem>>

\* MealLibraryPageManager.importLibraryData(importData)
ImportLibraryData ==
    \E importData \in ImportFiles, r \in RandomPool, ok \in BOOLEAN :
        /\ openPage = "meal-library"
        /\ Len(UserMeals(getLibraryMeals(libraryItem, now))) < MaxLibraryMeals
        /\ IF "meals" \notin DOMAIN importData
           THEN /\ notification' = Notice("error", "Failed to import meals. Please check the file format.", "")
                /\ UNCHANGED <<libraryItem, page>>
           ELSE LET currentLibrary == getLibraryMeals(libraryItem, now)
                    \* each file of the model holds one meal, so one id is drawn
                    newMeals == [i \in 1..Len(importData.meals) |->
                                    libraryMealOf(importData.meals[i], now, r)]
                IN  /\ libraryItem' = StorageWrite(libraryItem, currentLibrary \o newMeals, ok)
                    /\ IF ok
                       THEN /\ notification' = Notice("success", "Imported meals successfully!", "")
                            /\ page' = LibraryPage(libraryItem', now, page.libraryGrid)
                       ELSE /\ notification' = Notice("error", "Failed to import meals. Please check the file format.", "")
                            /\ UNCHANGED page
        /\ UNCHANGED <<outsidePlanner, clockVars, storeVars, mealLog, openPage,
                       currentDate, mealForm>>

\* MealLibraryPageManager.deleteLibraryMeal(mealId), from the Delete button of
\* a card or the details of a meal; the user answers the confirm dialog
DeleteLibraryMeal ==
    LET libraryMeals == getLibraryMeals(libraryItem, now)
    IN  \E mealId \in ClickedIds(libraryMeals) \cup {generateId(now, 1)},
           confirmed \in BOOLEAN, ok \in BOOLEAN :
            LET k == FindById(libraryMeals, mealId)
            IN  /\ openPage = "meal-library"
                /\ IF k = 0
                   THEN /\ notification' = Notice("error", "Meal not found", "")
                        /\ UNCHANGED <<libraryItem, page>>
                   ELSE IF refusesDelete(libraryMeals[k])
                   THEN /\ notification' = Notice("error", "Cannot delete default meals", "")
                        /\ UNCHANGED <<libraryItem, page>>
                   ELSE IF ~confirmed
                   THEN UNCHANGED <<libraryItem, page, notification>>
                   ELSE /\ libraryItem' = deleteFromLibrary(libraryItem, mealId, now, ok)
                        /\ IF ok
                           THEN /\ notification' = Notice("success", "Meal deleted from library!", "")
                                /\ page' = LibraryPage(libraryItem', now, page.libraryGrid)
                           ELSE /\ notification' = Notice("error", "Failed to delete meal. Please try again.", "")
                                /\ UNCHANGED page
                /\ UNCHANGED <<outsidePlanner, clockVars, storeVars, mealLog, openPage,
                               currentDate, mealForm>>
----------------------------------------------------------------------------
(* Reset of the profile page *)

\* FormUtils.resetForm, then FormUtils.populateForm with the defaults, which
\* leaves an input empty where the default is null
ResetForms ==
    /\ profileForm' = populateForm(EmptyProfileForm, DefaultProfile, ProfileNumberInputs)
    /\ goalsForm' = populateForm(EmptyGoalsForm, DefaultGoals, GoalsNumberInputs)

\* ProfilePageManager.resetProfile of js/profile.js, confirmed: it writes
\* nothing to storage
ResetProfile ==
    /\ ResetForms
    /\ notification' = Notice("info", "Profile reset to defaults", "")
    /\ UNCHANGED <<outsideProfilePage, clockVars, profileItem, goalsItem, bmiItem,
                   summary, goalProgress>>

\* ProfilePageManager.resetProfile of the profile page beside the planner,
\* confirmed: it removes the item userBMI
ResetProfileRemovingBMI ==
    /\ ResetForms
    /\ bmiItem' = Absent
    /\ notification' = Notice("info", "Profile reset to defaults", "")
    /\ UNCHANGED <<outsideProfilePage, clockVars, profileItem, goalsItem,
                   summary, goalProgress>>
----------------------------------------------------------------------------
(* Stored meals of the progress page around the ends of its periods *)

\* the first day of each period, the day before the 7-day period, yesterday,
\* today and tomorrow
PeriodDays == {Today - 29, Today - 13, Today - 7, Today - 6, Today - 1, Today, Today + 1}

PeriodStores ==
    {IF S = {} THEN Absent ELSE StorageSet(MealsOn(S)) : S \in SUBSET PeriodDays}
----------------------------------------------------------------------------
(* ThemeManager (js/app.js) *)

MaxThemeEvents == 4

\* APP_CONFIG.defaults.theme
DefaultTheme == "light"

\* ThemeManager.applyTheme: the data-theme attribute, this.currentTheme and
\* StorageManager.set of the theme, whose setItem may throw
applyTheme(theme, item, ok) ==
    [dataTheme |-> theme, currentTheme |-> theme, themeItem |-> StorageWrite(item, theme, ok)]

\* this.currentTheme === 'light' ? 'dark' : 'light'
toggled(theme) == IF theme = "light" THEN "dark" ELSE "light"

\* e.matches ? 'dark' : 'light'
schemeTheme(scheme) == IF scheme = "dark" THEN "dark" ELSE "light"

\* StorageManager.get(APP_CONFIG.storage.keys.theme): null for no item
storedTheme(item) == StorageGet(item, "")

ThemeIdle ==
    /\ themeItem = Absent /\ currentTheme = "" /\ dataTheme = ""
    /\ systemScheme = "light" /\ manualTheme = FALSE /\ themeLog = <<>>

\* new ThemeManager() of App.initializeManagers, on every page load: the
\* stored theme or the default is applied, and so stored
NewThemeManager ==
    \E ok \in BOOLEAN :
        LET applied == applyTheme(StorageGet(themeItem, DefaultTheme), themeItem, ok)
        IN  /\ Len(themeLog) < MaxThemeEvents
            /\ dataTheme' = applied.dataTheme
            /\ currentTheme' = applied.currentTheme
            /\ themeItem' = applied.themeItem
            /\ themeLog' = Append(themeLog, "load")
            /\ UNCHANGED <<outsideTheme, systemScheme, manualTheme>>

\* the click listener of #theme-toggle: toggleTheme
ToggleTheme ==
    \E ok \in BOOLEAN :
        LET applied == applyTheme(toggled(currentTheme), themeItem, ok)
        IN  /\ currentTheme # ""
            /\ Len(themeLog) < MaxThemeEvents
            /\ dataTheme' = applied.dataTheme
            /\ currentTheme' = applied.currentTheme
            /\ themeItem' = applied.themeItem
            /\ manualTheme' = TRUE
            /\ themeLog' = Append(themeLog, "click")
            /\ UNCHANGED <<outsideTheme, systemScheme>>

\* the system colour scheme changes: the listener of setupSystemThemeListener
\* applies the scheme if (!storedTheme)
SystemThemeChange ==
    \E ok \in BOOLEAN :
        LET scheme == toggled(systemScheme)
            applied == applyTheme(schemeTheme(scheme), themeItem, ok)
        IN  /\ currentTheme # ""
            /\ Len(themeLog) < MaxThemeEvents
            /\ systemScheme' = scheme
            /\ IF storedTheme(themeItem) = ""
               THEN /\ dataTheme' = applied.dataTheme
                    /\ currentTheme' = applied.currentTheme
                    /\ themeItem' = applied.themeItem
               ELSE UNCHANGED <<dataTheme, currentTheme, themeItem>>
            /\ themeLog' = Append(themeLog, "scheme")
            /\ UNCHANGED <<outsideTheme, manualTheme>>

----------------------------------------------------------------------------
(* The meal form at the edges of its ranges *)

\* the values a number input of the meal form is given: empty, the ends of
\* the ranges of handleFormSubmit and their neighbours
CaloriesValues == {Null, Num(0), Num(1), Num(10000), Num(10001)}
MacroValues == {Null, Num(-1), Num(0), Num(1000), Num(1001)}

\* the user fills in #meal-form: every field empty or filled
FillMealForm ==
    \E date \in {NoDate, Today}, foodItem \in {"", "Quinoa Salad"},
       calories \in CaloriesValues, protein \in MacroValues, carbs \in {Num(0), Num(58)} :
        /\ openPage = "meal-planner"
        /\ mealForm' = [EmptyMealForm EXCEPT !.date = date, !.mealType = "lunch",
                           !.foodItem = foodItem, !.calories = calories,
                           !.protein = protein, !.carbs = carbs, !.fats = Num(6)]
        /\ UNCHANGED <<outsidePlanner, clockVars, storeVars, mealLog, openPage,
                       currentDate, libraryItem, notification, page>>

----------------------------------------------------------------------------
(* A page load: app.js, the page's script and DOMContentLoaded *)

\* the pages whose manager class both App.initializePageSpecific and the
\* page's own script construct
ManagedPages == {"dashboard.html", "progress.html", "meal-planner.html", "meal-library.html"}

\* the pages whose manager draws charts in init()
ChartPages == {"dashboard.html", "progress.html"}

NoEvent == [type |-> "", handlers |-> 0]

LoadIdle ==
    /\ pathname = "" /\ readyState = "" /\ scriptsRun = {} /\ domReadyListeners = <<>>
    /\ domContentLoaded = FALSE /\ managerClass = FALSE /\ instances = 0
    /\ lastEvent = NoEvent

\* App.initializePageSpecific: case '<page>.html': if (window.<Manager>) new
\* window.<Manager>(): the instances it constructs
initializePageSpecific(path, defined) == IF path \in ManagedPages /\ defined THEN 1 ELSE 0

\* the auto-initialize of a page's script: if the pathname includes the page's
\* name, new <Manager>()
autoInitialize(path) == IF path \in ManagedPages THEN 1 ELSE 0

\* what the listeners of DOMContentLoaded construct, run in the order added
RECURSIVE runListeners(_, _, _)
runListeners(listeners, path, defined) ==
    IF listeners = <<>> THEN 0
    ELSE (IF Head(listeners) = "App.onDOMReady" THEN initializePageSpecific(path, defined)
          ELSE autoInitialize(path))
         + runListeners(Tail(listeners), path, defined)

\* the charts drawn on one canvas: every instance's initializeCharts calls
\* new Chart(ctx) on it
chartsPerCanvas(path, n) == IF path \in ChartPages THEN n ELSE 0

\* both scripts have run and DOMContentLoaded has been dispatched
LoadFinished ==
    /\ scriptsRun = {"app.js", "page script"}
    /\ domContentLoaded

\* the browser starts to load one of the pages
Navigate ==
    \E path \in ManagedPages :
        /\ pathname' = path
        /\ readyState' = "loading"
        /\ scriptsRun' = {}
        /\ domReadyListeners' = <<>>
        /\ domContentLoaded' = FALSE
        /\ managerClass' = FALSE
        /\ instances' = 0
        /\ lastEvent' = NoEvent
        /\ UNCHANGED outsideLoad

\* js/app.js runs: window.app = new App(), whose setupEventListeners waits for
\* DOMContentLoaded if document.readyState === 'loading' and calls onDOMReady
\* at once if not
RunAppScript ==
    /\ pathname # ""
    /\ "app.js" \notin scriptsRun
    /\ scriptsRun' = scriptsRun \cup {"app.js"}
    /\ IF readyState = "loading"
       THEN /\ domReadyListeners' = Append(domReadyListeners, "App.onDOMReady")
            /\ UNCHANGED instances
       ELSE /\ instances' = instances + initializePageSpecific(pathname, managerClass)
            /\ UNCHANGED domReadyListeners
    /\ UNCHANGED <<outsideLoad, pathname, readyState, domContentLoaded, managerClass, lastEvent>>

\* the page's script runs, after app.js whose classes it uses: it defines
\* window.<Manager> and auto-initializes, at DOMContentLoaded if
\* document.readyState === 'loading' and at once if not
RunPageScript ==
    /\ "app.js" \in scriptsRun
    /\ "page script" \notin scriptsRun
    /\ scriptsRun' = scriptsRun \cup {"page script"}
    /\ managerClass' = TRUE
    /\ IF readyState = "loading"
       THEN /\ domReadyListeners' = Append(domReadyListeners, "auto-initialize")
            /\ UNCHANGED instances
       ELSE /\ instances' = instances + autoInitialize(pathname)
            /\ UNCHANGED domReadyListeners
    /\ UNCHANGED <<outsideLoad, pathname, readyState, domContentLoaded, lastEvent>>

\* the parser reaches the end of the document
ParsingEnds ==
    /\ readyState = "loading"
    /\ readyState' = "interactive"
    /\ UNCHANGED <<outsideLoad, pathname, scriptsRun, domReadyListeners, domContentLoaded,
                   managerClass, instances, lastEvent>>

\* DOMContentLoaded is dispatched: its listeners run
DOMContentLoaded ==
    /\ readyState = "interactive"
    /\ ~domContentLoaded
    /\ domContentLoaded' = TRUE
    /\ instances' = instances + runListeners(domReadyListeners, pathname, managerClass)
    /\ UNCHANGED <<outsideLoad, pathname, readyState, scriptsRun, domReadyListeners,
                   managerClass, lastEvent>>

\* the load event: the document is complete
WindowLoad ==
    /\ readyState = "interactive"
    /\ domContentLoaded
    /\ readyState' = "complete"
    /\ UNCHANGED <<outsideLoad, pathname, scriptsRun, domReadyListeners, domContentLoaded,
                   managerClass, instances, lastEvent>>

\* document.dispatchEvent(new CustomEvent('dataRefresh')): the listener that
\* the setupEventListeners of every instance added runs refreshData
DispatchDataRefresh ==
    /\ LoadFinished
    /\ lastEvent' = [type |-> "dataRefresh", handlers |-> instances]
    /\ UNCHANGED <<outsideLoad, pathname, readyState, scriptsRun, domReadyListeners,
                   domContentLoaded, managerClass, instances>>

\* the meal form is submitted: the submit listener that the setupForm of every
\* MealPlannerManager added runs handleFormSubmit
SubmitMealForm ==
    /\ LoadFinished
    /\ pathname = "meal-planner.html"
    /\ lastEvent' = [type |-> "submit", handlers |-> instances]
    /\ UNCHANGED <<outsideLoad, pathname, readyState, scriptsRun, domReadyListeners,
                   domContentLoaded, managerClass, instances>>


\* empty storage and unopened pages
ShellIdle == ThemeIdle /\ LoadIdle
AppIdle == ClockIdle /\ StoreIdle /\ GoalsIdle /\ MacroIdle /\ TrendIdle /\ StreaksIdle /\ PlannerIdle /\ ProgressIdle /\ ShellIdle

----------------------------------------------------------------------------
(* Specifications *)

\* daily calories and the dashboard metrics over every profile
InitProfile ==
    /\ profile \in Profiles
    /\ macroArgs = NoMacroArgs /\ meals = <<>> /\ split = 0
    /\ Outputs0
    /\ AppIdle
NextProfile == CalculateDailyCalories \/ LoadUserData
SpecProfile == InitProfile /\ [][NextProfile]_vars

\* BMI and its category over a grid of heights and weights
InitBmi ==
    /\ profile \in BmiProfiles
    /\ macroArgs = NoMacroArgs /\ meals = <<>> /\ split = 0
    /\ Outputs0
    /\ AppIdle
NextBmi == CalculateBMI \/ LoadUserData
SpecBmi == InitBmi /\ [][NextBmi]_vars

\* macro goals over every calorie goal and goal
InitMacro ==
    /\ macroArgs \in [calories : CalorieArgs, goal : Goals]
    /\ profile = BlankProfile /\ meals = <<>> /\ split = 0
    /\ Outputs0
    /\ AppIdle
NextMacro == CalculateMacroGoals
SpecMacro == InitMacro /\ [][NextMacro]_vars

\* nutrition totals over every meal list, cut and order
InitNutrition ==
    /\ meals \in MealLists
    /\ split \in 0..Len(meals)
    /\ profile = BlankProfile /\ macroArgs = NoMacroArgs
    /\ Outputs0
    /\ AppIdle
NextNutrition == CalculateTotalNutrition \/ Reorder
SpecNutrition == InitNutrition /\ [][NextNutrition]_vars

\* the goals as the two profile pages store them, the planner summary and the
\* progress bars over them
InitGoals ==
    /\ ShellIdle
    /\ profile = BlankProfile /\ macroArgs = NoMacroArgs /\ meals = <<>> /\ split = 0
    /\ Outputs0
    /\ ProgressIdle
    /\ PlannerIdle
    /\ StreaksIdle
    /\ TrendIdle
    /\ MacroIdle
    /\ now = NewDate(Today) + 12 /\ tz = UtcZone /\ period = 7
    /\ mealStore \in ProgressStores
    /\ profileForm = populateForm(EmptyProfileForm, getProfile(Absent), ProfileNumberInputs)
    /\ goalsForm = populateForm(EmptyGoalsForm, getGoals(Absent), GoalsNumberInputs)
    /\ profileItem = Absent /\ goalsItem = Absent /\ bmiItem = Absent
    /\ summary = NoSummary /\ goalProgress = NoProgress
NextGoals == \/ EditGoalsForm
             \/ SaveProfile
             \/ SaveProfileAllFormData
             \/ CalculateDailySummary
             \/ UpdateGoalProgress
             \/ ChangePeriod
SpecGoals == InitGoals /\ [][NextGoals]_vars

\* the meal library: meals saved to it from the planner, imported and deleted
\* on the library page
InitLibrary ==
    /\ ShellIdle
    /\ profile = BlankProfile /\ macroArgs = NoMacroArgs /\ meals = <<>> /\ split = 0
    /\ Outputs0
    /\ ProgressIdle
    /\ GoalsIdle /\ MacroIdle /\ TrendIdle /\ StreaksIdle
    /\ ClockIdle /\ StoreIdle
    /\ PlannerIdle
NextLibrary == \/ OpenMealPlanner
               \/ EditMealForm
               \/ HandleSaveToLibrary
               \/ OpenMealLibrary
               \/ ImportLibraryData
               \/ DeleteLibraryMeal
               \/ Tick
SpecLibrary == InitLibrary /\ [][NextLibrary]_vars

\* page loads: the two scripts run while the document is loading or after, in
\* any interleaving with the end of parsing and DOMContentLoaded
InitLoad ==
    /\ profile = BlankProfile /\ Outputs0 /\ macroArgs = NoMacroArgs
    /\ meals = <<>> /\ split = 0
    /\ ClockIdle /\ StoreIdle /\ GoalsIdle /\ MacroIdle /\ TrendIdle /\ StreaksIdle
    /\ PlannerIdle /\ ProgressIdle /\ ThemeIdle
    /\ LoadIdle
NextLoad == \/ Navigate
            \/ RunAppScript
            \/ RunPageScript
            \/ ParsingEnds
            \/ DOMContentLoaded
            \/ WindowLoad
            \/ DispatchDataRefresh
            \/ SubmitMealForm
SpecLoad == InitLoad /\ [][NextLoad]_vars

\* the calories the meal form derives from its macros and the chart values of
\* the same macros
InitMacroCalories ==
    /\ ShellIdle
    /\ profile = BlankProfile /\ macroArgs = NoMacroArgs /\ meals = <<>> /\ split = 0
    /\ Outputs0
    /\ ProgressIdle
    /\ PlannerIdle
    /\ StreaksIdle
    /\ TrendIdle
    /\ ClockIdle /\ StoreIdle /\ GoalsIdle
    /\ macroInputs \in [protein : MacroTexts, carbs : MacroTexts, fats : MacroTexts,
                        calories : {Null, Num(250)}]
    /\ autoCalories = NoAutoCalories
    /\ macrosBreakdown = NoBreakdown
NextMacroCalories == CalculateCalories \/ InitializeMacrosBreakdownChart
SpecMacroCalories == InitMacroCalories /\ [][NextMacroCalories]_vars

\* every sequence of saveMeal and deleteMeal calls
InitMealStore ==
    /\ ShellIdle
    /\ profile = BlankProfile /\ macroArgs = NoMacroArgs /\ meals = <<>> /\ split = 0
    /\ Outputs0
    /\ ProgressIdle
    /\ GoalsIdle /\ MacroIdle /\ TrendIdle /\ StreaksIdle
    /\ ClockIdle
    /\ mealStore = Absent
    /\ mealLog = <<>>
    /\ PageIdle
NextMealStore == SaveMeal \/ DeleteMeal \/ Tick
SpecMealStore == InitMealStore /\ [][NextMealStore]_vars

\* the progress page opened at three times of day, in every time zone, on
\* meals around the ends of the periods
InitPeriod ==
    /\ ShellIdle
    /\ profile = BlankProfile /\ macroArgs = NoMacroArgs /\ meals = <<>> /\ split = 0
    /\ Outputs0
    /\ ProgressIdle
    /\ PlannerIdle
    /\ GoalsIdle /\ MacroIdle /\ TrendIdle /\ StreaksIdle
    /\ now \in {NewDate(Today), NewDate(Today) + 12, NewDate(Today) + 23}
    /\ tz \in TimeZones
    /\ period = 7
    /\ mealStore \in PeriodStores
NextPeriod == UpdateGoalProgress \/ ChangePeriod
SpecPeriod == InitPeriod /\ [][NextPeriod]_vars

\* the meal planner and the meal library page over one browser's storage
InitPlanner ==
    /\ ShellIdle
    /\ profile = BlankProfile /\ macroArgs = NoMacroArgs /\ meals = <<>> /\ split = 0
    /\ Outputs0
    /\ ProgressIdle
    /\ GoalsIdle /\ MacroIdle /\ TrendIdle /\ StreaksIdle
    /\ now = NewDate(Today) + 12 /\ tz = UtcZone /\ period = 7
    /\ mealStore = Absent
    /\ PlannerIdle
NextPlanner == \/ OpenMealPlanner
               \/ EditMealForm
               \/ ChangeMealDate
               \/ HandleFormSubmit
               \/ HandleSaveToLibrary
               \/ QuickAddMeal
               \/ DeleteMealConfirmed
               \/ OpenMealLibrary
               \/ AddMealToPlan
               \/ ImportLibraryData
               \/ DeleteLibraryMeal
SpecPlanner == InitPlanner /\ [][NextPlanner]_vars

\* the dates of the meal planner: the date input, the day cards, the form
InitMealDate == InitPlanner
NextMealDate == \/ OpenMealPlanner
                \/ EditMealForm
                \/ ChangeMealDate
                \/ SelectDate
                \/ HandleFormSubmit
SpecMealDate == InitMealDate /\ [][NextMealDate]_vars

\* the meal form of the planner filled in and submitted
InitMealForm == InitPlanner
NextMealForm == OpenMealPlanner \/ FillMealForm \/ HandleFormSubmit
SpecMealForm == InitMealForm /\ [][NextMealForm]_vars

\* the profile page: its forms edited, saved and reset
InitReset ==
    /\ ShellIdle
    /\ profile = BlankProfile /\ macroArgs = NoMacroArgs /\ meals = <<>> /\ split = 0
    /\ Outputs0
    /\ ProgressIdle
    /\ PlannerIdle
    /\ StreaksIdle /\ TrendIdle /\ MacroIdle
    /\ ClockIdle /\ StoreIdle
    /\ profileForm = populateForm(EmptyProfileForm, getProfile(Absent), ProfileNumberInputs)
    /\ goalsForm = populateForm(EmptyGoalsForm, getGoals(Absent), GoalsNumberInputs)
    /\ profileItem = Absent /\ goalsItem = Absent /\ bmiItem = Absent
    /\ summary = NoSummary /\ goalProgress = NoProgress
NextReset == \/ EditProfileForm
             \/ EditGoalsForm
             \/ SaveProfile
             \/ SaveProfileAllFormData
             \/ ResetProfile
             \/ ResetProfileRemovingBMI
SpecReset == InitReset /\ [][NextReset]_vars

\* the profile page beside the meal planner: its forms edited, saved with
\* writes that succeed or throw, and reset
InitBmiItem == InitReset
NextBmiItem == \/ EditProfileForm
               \/ EditGoalsForm
               \/ SaveProfileAllFormData
               \/ SaveProfileWriteThrows
               \/ ResetProfileRemovingBMI
SpecBmiItem == InitBmiItem /\ [][NextBmiItem]_vars

\* the streaks of every set of logged days, at three times of day, in every
\* time zone
InitStreaks ==
    /\ ShellIdle
    /\ profile = BlankProfile /\ macroArgs = NoMacroArgs /\ meals = <<>> /\ split = 0
    /\ Outputs0
    /\ ProgressIdle
    /\ PlannerIdle
    /\ GoalsIdle /\ MacroIdle /\ TrendIdle
    /\ now \in {NewDate(Today), NewDate(Today) + 12, NewDate(Today) + 23}
    /\ tz \in TimeZones
    /\ period = 7
    /\ mealStore \in StreakStores
    /\ streaks = NoStreaks
NextStreaks == CalculateStreaks
SpecStreaks == InitStreaks /\ [][NextStreaks]_vars

\* the theme of the app: first visits under either system scheme, then page
\* loads, clicks on the toggle and changes of the system scheme
InitTheme ==
    /\ profile = BlankProfile /\ Outputs0 /\ macroArgs = NoMacroArgs
    /\ meals = <<>> /\ split = 0
    /\ ClockIdle /\ StoreIdle /\ GoalsIdle /\ MacroIdle /\ TrendIdle /\ StreaksIdle
    /\ PlannerIdle /\ ProgressIdle /\ LoadIdle
    /\ themeItem = Absent /\ currentTheme = "" /\ dataTheme = ""
    /\ systemScheme \in {"light", "dark"}
    /\ manualTheme = FALSE /\ themeLog = <<>>
NextTheme == NewThemeManager \/ ToggleTheme \/ SystemThemeChange
SpecTheme == InitTheme /\ [][NextTheme]_vars

\* the linear trend of every series of daily totals
InitTrend ==
    /\ ShellIdle
    /\ profile = BlankProfile /\ macroArgs = NoMacroArgs /\ meals = <<>> /\ split = 0
    /\ Outputs0
    /\ ProgressIdle
    /\ PlannerIdle
    /\ StreaksIdle
    /\ ClockIdle /\ StoreIdle /\ GoalsIdle /\ MacroIdle
    /\ series \in SeriesInputs
    /\ trend = NoTrend
NextTrend == CalculateLinearTrend \/ AppendDay
SpecTrend == InitTrend /\ [][NextTrend]_vars

\* every page and calculator over every input
Init == \/ InitProfile \/ InitBmi \/ InitMacro \/ InitNutrition
        \/ InitGoals \/ InitMacroCalories \/ InitTrend \/ InitStreaks
        \/ InitMealStore \/ InitPlanner \/ InitReset \/ InitPeriod \/ InitLibrary
        \/ InitTheme \/ InitMealForm \/ InitMealDate \/ InitLoad \/ InitBmiItem
Next == \/ NextProfile \/ NextBmi \/ NextMacro \/ NextNutrition
        \/ NextGoals \/ NextMacroCalories \/ NextTrend \/ NextStreaks
        \/ NextMealStore \/ NextPlanner \/ NextReset \/ NextPeriod \/ NextLibrary
        \/ NextTheme \/ NextMealForm \/ NextMealDate \/ NextLoad \/ NextBmiItem
Spec == Init /\ [][Next]_vars

----------------------------------------------------------------------------
(* Properties: BMR, TDEE and the daily calorie goal *)

Positive(a) == Less(Num(0), a)

\* 10*weight + 6.25*height - 5*age, +5 for male, -161 for female
MifflinStJeor(p) ==
    LET base == Minus(Plus(Times(Num(10), p.weight), Times(Rat(25, 4), p.height)),
                      Times(Num(5), p.age))
    IN  IF p.gender = "male" THEN Plus(base, Num(5))
        ELSE IF p.gender = "female" THEN Minus(base, Num(161))
        ELSE base

PositiveMeasures(p) == Positive(p.age) /\ Positive(p.height) /\ Positive(p.weight)

\* C1: for every profile with age, height and weight present and positive, the
\* BMR computed by ProfileManager.calculateDailyCalories and the BMR computed by
\* DashboardManager.calculateBMR both equal 10*weight + 6.25*height - 5*age,
\* plus 5 for 'male', minus 161 for 'female', unadjusted for any other gender.
C1_BmrIsMifflinStJeor ==
    /\ (pmCalc.called /\ PositiveMeasures(profile) /\ ~IsNull(pmCalc.bmr))
          => pmCalc.bmr = MifflinStJeor(profile)
    /\ (userData.loaded /\ PositiveMeasures(profile))
          => userData.bmr = MifflinStJeor(profile)

\* the multiplier table of the specification, with the default given
ActivityTable(level, default) ==
    IF level = "sedentary" THEN Rat(6, 5)
    ELSE IF level = "light" THEN Rat(11, 8)
    ELSE IF level = "moderate" THEN Rat(31, 20)
    ELSE IF level = "active" THEN Rat(69, 40)
    ELSE IF level = "very-active" THEN Rat(19, 10)
    ELSE default

\* C2 as stated: TDEE equals BMR times the table's multiplier, an activity
\* level not in the table taking 1.2 on the dashboard path and 1.55 on the
\* profile path.
C2_TdeeAsStated ==
    /\ (pmCalc.called /\ ~IsNull(pmCalc.bmr))
          => pmCalc.tdee = Times(pmCalc.bmr, ActivityTable(profile.activityLevel, Rat(31, 20)))
    /\ userData.loaded
          => userData.tdee = Times(userData.bmr, ActivityTable(userData.activityLevel, Rat(6, 5)))

\* C2 amended: on the profile path TDEE equals BMR times the table's multiplier
\* with 1.2 for a level not in the table (a missing level returns null before
\* any TDEE is computed); on the dashboard path TDEE equals the rounded BMR
\* times the multiplier, rounded to the nearest integer, with 1.55 for a level
\* not in the table.
C2_TdeeAmended ==
    /\ (pmCalc.called /\ ~IsNull(pmCalc.bmr))
          => pmCalc.tdee = Times(pmCalc.bmr, ActivityTable(profile.activityLevel, Rat(6, 5)))
    /\ (pmCalc.called /\ profile.activityLevel = "") => IsNull(pmCalc.result)
    /\ userData.loaded
          => userData.tdee =
                MathRound(Times(userData.bmr,
                                ActivityTable(userData.activityLevel, Rat(31, 20))))

\* C2 witness: both paths have computed a TDEE for a level not in the table
C2_Witness ==
    /\ profile.activityLevel = "extreme"
    /\ pmCalc.called /\ pmCalc.tdee = Times(pmCalc.bmr, Rat(6, 5))
    /\ userData.loaded /\ Positive(userData.bmr)
    /\ userData.tdee = MathRound(Times(userData.bmr, Rat(31, 20)))

\* the goal adjustments of the specification
AdjustmentTable(goal) ==
    IF goal = "lose-weight" THEN Num(-500)
    ELSE IF goal = "gain-weight" THEN Num(500)
    ELSE IF goal = "build-muscle" THEN Num(300)
    ELSE Num(0)

\* the BMR can be computed: age, gender, height and weight present and positive
BmrComputable(p) == PositiveMeasures(p) /\ p.gender # ""

\* C3 as stated: for every profile whose BMR can be computed,
\* calculateDailyCalories returns the integer round(TDEE + adjustment), and it
\* returns null only when the BMR cannot be computed.
C3_DailyCaloriesAsStated ==
    (pmCalc.called /\ BmrComputable(profile))
       => /\ ~IsNull(pmCalc.result)
          /\ pmCalc.result = MathRound(Plus(pmCalc.tdee, AdjustmentTable(profile.goal)))

\* C3 amended: when age, gender, height, weight and activity level are all
\* present and non-zero, calculateDailyCalories returns the integer
\* round(TDEE + adjustment), the adjustment being -500, 0, +500, +300, 0 for
\* the five goals and 0 for any other goal; it returns null exactly when one
\* of those five fields is missing or zero, a missing activity level included.
C3_DailyCaloriesAmended ==
    pmCalc.called =>
       IF \/ Falsy(profile.age) \/ Falsy(profile.height) \/ Falsy(profile.weight)
          \/ profile.gender = "" \/ profile.activityLevel = ""
       THEN IsNull(pmCalc.result)
       ELSE /\ pmCalc.result.den = 1
            /\ pmCalc.result = MathRound(Plus(pmCalc.tdee, AdjustmentTable(profile.goal)))

\* C3 witness: a complete profile with goal build-muscle got round(TDEE + 300)
C3_Witness ==
    /\ pmCalc.called
    /\ profile = [age |-> Num(30), gender |-> "male", height |-> Num(180),
                  weight |-> Num(80), activityLevel |-> "moderate", goal |-> "build-muscle"]
    /\ pmCalc.bmr = Num(1780)
    /\ pmCalc.result = Num(3059)

\* C8: whenever age, gender, height or weight is missing, zero or negative,
\* calculateDailyCalories returns null and DashboardManager.calculateBMR
\* returns 0, never a number derived from the invalid input.
C8_InvalidInputGivesSentinel ==
    /\ (pmCalc.called /\ ~BmrComputable(profile)) => IsNull(pmCalc.result)
    /\ (userData.loaded /\ ~BmrComputable(profile)) => userData.bmr = Num(0)

----------------------------------------------------------------------------
(* Properties: macro goals *)

NonZero(a) == ~IsNull(a) /\ a.num # 0

\* the ratio triples of the specification, the default for any other goal
RatioTable(goal) ==
    IF goal = "lose-weight" THEN <<Rat(3, 10), Rat(7, 20), Rat(7, 20)>>
    ELSE IF goal = "gain-weight" THEN <<Rat(1, 4), Rat(1, 2), Rat(1, 4)>>
    ELSE IF goal = "build-muscle" THEN <<Rat(3, 10), Rat(2, 5), Rat(3, 10)>>
    ELSE IF goal = "improve-performance" THEN <<Rat(1, 5), Rat(3, 5), Rat(1, 5)>>
    ELSE <<Rat(1, 4), Rat(9, 20), Rat(3, 10)>>

\* C4 as stated: for every non-zero calorieGoal and every goal,
\* calculateMacroGoals returns protein = calories*ratio.protein/4, carbs =
\* calories*ratio.carbs/4 and fats = calories*ratio.fats/9, and null when the
\* calorieGoal is zero or missing.
C4_MacroGoalsAsStated ==
    macroGoals.called =>
       IF NonZero(macroArgs.calories)
       THEN /\ ~macroGoals.isNull
            /\ macroGoals.protein =
                  Over(Times(macroArgs.calories, RatioTable(macroArgs.goal)[1]), Num(4))
            /\ macroGoals.carbs =
                  Over(Times(macroArgs.calories, RatioTable(macroArgs.goal)[2]), Num(4))
            /\ macroGoals.fats =
                  Over(Times(macroArgs.calories, RatioTable(macroArgs.goal)[3]), Num(9))
       ELSE macroGoals.isNull

\* C4 amended: for every non-zero calorieGoal and every goal,
\* calculateMacroGoals returns protein = round(calories*ratio.protein/4),
\* carbs = round(calories*ratio.carbs/4) and fats = round(calories*ratio.fats/9),
\* each rounded to the nearest integer, with the goal's ratio triple (the
\* maintain-weight triple for any other goal); (2000, 'maintain-weight') gives
\* 125, 225 and 67; it returns null when the calorieGoal is zero or missing.
C4_MacroGoalsAmended ==
    macroGoals.called =>
       IF NonZero(macroArgs.calories)
       THEN /\ ~macroGoals.isNull
            /\ macroGoals.protein =
                  MathRound(Over(Times(macroArgs.calories, RatioTable(macroArgs.goal)[1]), Num(4)))
            /\ macroGoals.carbs =
                  MathRound(Over(Times(macroArgs.calories, RatioTable(macroArgs.goal)[2]), Num(4)))
            /\ macroGoals.fats =
                  MathRound(Over(Times(macroArgs.calories, RatioTable(macroArgs.goal)[3]), Num(9)))
       ELSE macroGoals.isNull

\* C4 witness: calculateMacroGoals(2000, 'maintain-weight') returned 125, 225, 67
C4_Witness ==
    /\ macroGoals.called
    /\ macroArgs = [calories |-> Num(2000), goal |-> "maintain-weight"]
    /\ macroGoals.protein = Num(125)
    /\ macroGoals.carbs = Num(225)
    /\ macroGoals.fats = Num(67)

\* 4*protein + 4*carbs + 9*fats - calorieGoal
MacroCalorieGap ==
    Minus(Plus(Plus(Times(Num(4), macroGoals.protein), Times(Num(4), macroGoals.carbs)),
               Times(Num(9), macroGoals.fats)),
          macroArgs.calories)

\* C5: for every positive calorieGoal and every goal, the returned grams
\* satisfy |4*protein + 4*carbs + 9*fats - calorieGoal| < 9.
C5_MacroRoundTrip ==
    (macroGoals.called /\ Positive(macroArgs.calories))
       => /\ ~macroGoals.isNull
          /\ Less(Num(-9), MacroCalorieGap)
          /\ Less(MacroCalorieGap, Num(9))

\* C5 witness: calculateMacroGoals(75, 'build-muscle') returned 6, 8 and 3
\* grams, which re-add to 83 calories: 8 away from the goal, the widest gap
C5_Witness ==
    /\ macroGoals.called
    /\ macroArgs = [calories |-> Num(75), goal |-> "build-muscle"]
    /\ macroGoals.protein = Num(6) /\ macroGoals.carbs = Num(8) /\ macroGoals.fats = Num(3)
    /\ MacroCalorieGap = Num(8)

----------------------------------------------------------------------------
(* Properties: BMI and its category *)

\* bmi * height^2 = weight * 10000, that is bmi = weight / (height/100)^2 exactly
IsExactBmi(bmi, height, weight) ==
    ~IsNull(bmi) /\ Times(bmi, Times(height, height)) = Times(weight, Num(10000))

\* C6: for all height, weight > 0, calculateBMI equals weight / (height/100)^2
\* with no rounding, in ProfileManager and in DashboardManager; when either
\* argument is zero or missing it returns the unavailable sentinel (null in
\* ProfileManager, 0 in DashboardManager).
C6_BmiFormula ==
    /\ pmBmi.called =>
          /\ (Positive(profile.height) /\ Positive(profile.weight))
                => IsExactBmi(pmBmi.value, profile.height, profile.weight)
          /\ (Falsy(profile.height) \/ Falsy(profile.weight)) => IsNull(pmBmi.value)
    /\ userData.loaded =>
          /\ (Positive(profile.height) /\ Positive(profile.weight))
                => IsExactBmi(userData.bmi, profile.height, profile.weight)
          /\ (Falsy(profile.height) \/ Falsy(profile.weight)) => userData.bmi = Num(0)

\* C6 witness: 190 cm and 70 kg gave 7000/361 = 19.39..., unrounded, on both paths
C6_Witness ==
    /\ profile.height = Num(190) /\ profile.weight = Num(70)
    /\ pmBmi.called /\ pmBmi.value = Rat(7000, 361)
    /\ userData.loaded /\ userData.bmi = Rat(7000, 361)

\* the step function with boundaries at 18.5, 25 and 30
StepCategory(bmi) ==
    IF Less(bmi, Rat(37, 2)) THEN "Underweight"
    ELSE IF LessEq(Rat(37, 2), bmi) /\ Less(bmi, Num(25)) THEN "Normal weight"
    ELSE IF LessEq(Num(25), bmi) /\ Less(bmi, Num(30)) THEN "Overweight"
    ELSE "Obese"

\* C7 as stated: the classifier is the step function with boundaries exactly
\* at 18.5, 25 and 30 (Underweight, Normal, Overweight, Obese), and a bmi that
\* is not available gives "Unknown", in ProfileManager and in DashboardManager.
C7_CategoryAsStated ==
    /\ pmBmi.called =>
          pmBmi.category = IF Falsy(pmBmi.value) THEN "Unknown"
                           ELSE StepCategory(pmBmi.value)
    /\ userData.loaded =>
          userData.bmiCategory = IF Falsy(userData.bmi) THEN "Unknown"
                                 ELSE StepCategory(userData.bmi)

\* C7 amended: the classifier is the step function with boundaries exactly at
\* 18.5, 25 and 30: bmi < 18.5 gives 'Underweight', 18.5 <= bmi < 25 gives
\* 'Normal weight', 25 <= bmi < 30 gives 'Overweight', bmi >= 30 gives 'Obese';
\* a bmi that is not available gives 'Unknown' in ProfileManager.getBMICategory
\* (null, undefined, NaN or 0) and 'Not available' in
\* DashboardManager.getBMICategory (its sentinel 0).
C7_CategoryAmended ==
    /\ pmBmi.called =>
          pmBmi.category = IF Falsy(pmBmi.value) THEN "Unknown"
                           ELSE StepCategory(pmBmi.value)
    /\ userData.loaded =>
          userData.bmiCategory = IF userData.bmi = Num(0) THEN "Not available"
                                 ELSE StepCategory(userData.bmi)

\* C7 witness: a bmi of exactly 18.5 (200 cm, 74 kg) was classified Normal
\* weight on both paths
C7_Witness ==
    /\ pmBmi.called /\ pmBmi.value = Rat(37, 2) /\ pmBmi.category = "Normal weight"
    /\ userData.loaded /\ userData.bmi = Rat(37, 2)
    /\ userData.bmiCategory = "Normal weight"

----------------------------------------------------------------------------
(* Properties: nutrition totals *)

\* the value a record contributes to a field: 0 when absent or null
Contribution(meal, f) ==
    IF f \in DOMAIN meal /\ ~IsNull(meal[f]) THEN meal[f] ELSE Num(0)

\* the sum of a field over the records 1..n of a list
RECURSIVE SumField(_, _, _)
SumField(ms, f, n) ==
    IF n = 0 THEN Num(0) ELSE Plus(SumField(ms, f, n - 1), Contribution(ms[n], f))

FieldwiseSum(a, b) ==
    [calories |-> Plus(a.calories, b.calories), protein |-> Plus(a.protein, b.protein),
     carbs |-> Plus(a.carbs, b.carbs), fats |-> Plus(a.fats, b.fats)]

\* C9: calculateTotalNutrition returns the field-wise sum of calories, protein,
\* carbs and fats over the collection, a missing field counting as 0; for the
\* empty collection it returns all zeros; every total is a number.
C9_TotalsAreFieldSums ==
    totals.called =>
       /\ totals.whole =
             [calories |-> SumField(totals.input, "calories", Len(totals.input)),
              protein |-> SumField(totals.input, "protein", Len(totals.input)),
              carbs |-> SumField(totals.input, "carbs", Len(totals.input)),
              fats |-> SumField(totals.input, "fats", Len(totals.input))]
       /\ totals.input = <<>> => totals.whole = ZeroTotals
       /\ \A f \in {"calories", "protein", "carbs", "fats"} : ~IsNull(totals.whole[f])

\* C9 witness: a list with absent fields was totalled: chicken breast, a
\* record with calories and carbs only and a record with protein and fats only
C9_Witness ==
    /\ totals.called
    /\ totals.input = <<MealPool[1], MealPool[2], MealPool[3]>>
    /\ totals.whole = [calories |-> Num(379), protein |-> Rat(734, 10),
                       carbs |-> Num(25), fats |-> Rat(77, 10)]

\* C10: the totals of the concatenation of two meal lists equal the field-wise
\* sum of the totals of the two lists, and the totals of a list equal the
\* totals of any reordering of it.
C10_TotalsAssociativeAnyOrder ==
    totals.called =>
       /\ totals.whole = FieldwiseSum(totals.left, totals.right)
       /\ totals.whole = calculateTotalNutrition(meals)

\* C10 witness: a list cut into two non-empty parts was totalled and then
\* reordered
C10_Witness ==
    /\ totals.called
    /\ meals # totals.input
    /\ split > 0 /\ split < Len(meals)
    /\ totals.left # ZeroTotals /\ totals.right # ZeroTotals
    /\ totals.left # totals.right

----------------------------------------------------------------------------
(* Properties: percent of goal *)

NutritionFields == {"calories", "protein", "carbs", "fats"}

GoalOf(goals, f) ==
    IF f = "calories" THEN goals.calorieGoal
    ELSE IF f = "protein" THEN goals.proteinGoal
    ELSE IF f = "carbs" THEN goals.carbsGoal
    ELSE goals.fatsGoal

\* round(100 * total / goal), 0 for a goal of zero
PercentOfGoal(total, goal) ==
    IF ToNumber(goal).num = 0 THEN Num(0)
    ELSE MathRound(Over(Times(Num(100), total), ToNumber(goal)))

\* C11: for each of calories, protein, carbs and fats the percentage reported
\* by calculateDailySummary and by updateGoalProgress is
\* round(100 * total / goal) when the goal is non-zero and exactly 0 when the
\* goal is zero, and it is never NaN or Infinity.
C11_PercentOfGoal ==
    /\ summary.called =>
          \A f \in NutritionFields :
              /\ ~IsNull(summary.percentages[f])
              /\ summary.percentages[f] =
                    PercentOfGoal(summary.totalNutrition[f], GoalOf(summary.goals, f))
    /\ goalProgress.called =>
          \A f \in NutritionFields :
              /\ ~IsNull(goalProgress.percentage[f])
              /\ goalProgress.percentage[f] =
                    PercentOfGoal(goalProgress.totalNutrition[f], GoalOf(goalProgress.goals, f))
----------------------------------------------------------------------------
(* Properties: calories from macronutrients *)

\* protein*4 + carbs*4 + fats*9 of the macros in the form, an empty input
\* counting as 0
MacroCalories(inputs) ==
    Plus(Plus(Times(OrZero(inputs.protein), Num(4)), Times(OrZero(inputs.carbs), Num(4))),
         Times(OrZero(inputs.fats), Num(9)))

ChartSum(data) == Plus(Plus(data.proteinCalories, data.carbsCalories), data.fatsCalories)

\* C12 as stated: the calories the meal form writes are
\* protein*4 + carbs*4 + fats*9, and they equal the sum of the three
\* per-macro calorie values the chart plots for the same macros.
C12_FormEqualsChartsAsStated ==
    /\ (autoCalories.called /\ autoCalories.written)
          => autoCalories.value = MacroCalories(macroInputs)
    /\ (autoCalories.called /\ autoCalories.written /\ macrosBreakdown.called)
          => autoCalories.value = ChartSum(macrosBreakdown)

\* C12 amended: the chart plots exactly protein*4, carbs*4 and fats*9; the
\* form writes a value only when protein*4 + carbs*4 + fats*9 is positive,
\* and then writes that sum rounded to the nearest integer, which is the
\* rounded sum of the chart's three values.
C12_FormIsRoundedChartSum ==
    /\ autoCalories.called =>
          /\ autoCalories.written <=> Less(Num(0), MacroCalories(macroInputs))
          /\ autoCalories.written
                => autoCalories.value = MathRound(MacroCalories(macroInputs))
          /\ autoCalories.value = macroInputs.calories
    /\ macrosBreakdown.called =>
          /\ macrosBreakdown.proteinCalories = Times(OrZero(macroInputs.protein), Num(4))
          /\ macrosBreakdown.carbsCalories = Times(OrZero(macroInputs.carbs), Num(4))
          /\ macrosBreakdown.fatsCalories = Times(OrZero(macroInputs.fats), Num(9))
    /\ (autoCalories.called /\ autoCalories.written /\ macrosBreakdown.called)
          => autoCalories.value = MathRound(ChartSum(macrosBreakdown))

\* C12 witness: the form has written 0 calories for a tenth of a gram of
\* protein, of which the chart plots 0.4
C12_Witness ==
    /\ autoCalories.called /\ autoCalories.written /\ macrosBreakdown.called
    /\ macroInputs.protein = Rat(1, 10)
    /\ autoCalories.value = Num(0)
    /\ ChartSum(macrosBreakdown) = Rat(4, 10)
----------------------------------------------------------------------------
(* Properties: linear trend *)

\* the mean of a non-empty series
Mean(s) == Over(SumSeq(s), Num(Len(s)))

\* the least-squares slope of value against index 0..n-1: the sum of
\* (x - mean x)(y - mean y) over the sum of (x - mean x)^2
LeastSquaresSlope(values) ==
    LET n == Len(values)
        x == [i \in 1..n |-> Num(i - 1)]
        dx == [i \in 1..n |-> Minus(x[i], Mean(x))]
        dy == [i \in 1..n |-> Minus(values[i], Mean(values))]
    IN  Over(SumSeq([i \in 1..n |-> Times(dx[i], dy[i])]),
             SumSeq([i \in 1..n |-> Times(dx[i], dx[i])]))

\* C13: calculateLinearTrend returns the ordinary least-squares slope of value
\* against index 0..n-1 and direction 'increasing' if slope > 0.1, 'decreasing'
\* if slope < -0.1, otherwise 'stable'; a series shorter than 2 gives slope 0
\* and 'stable'; for a series of length 2 or more the slope is a finite
\* number; [100,100,100,100] is stable and [100,110,120,130] is increasing.
C13_LinearTrend ==
    trend.called =>
        /\ Len(trend.values) < 2
              => trend.slope = Num(0) /\ trend.direction = "stable"
        /\ Len(trend.values) >= 2
              => /\ ~IsNull(trend.slope)
                 /\ trend.slope = LeastSquaresSlope(trend.values)
        /\ trend.direction = "increasing" <=> Less(Rat(1, 10), trend.slope)
        /\ trend.direction = "decreasing" <=> Less(trend.slope, Rat(-1, 10))
        /\ trend.direction \in {"increasing", "decreasing", "stable"}
        /\ trend.values = <<Num(100), Num(100), Num(100), Num(100)>>
              => trend.direction = "stable"
        /\ trend.values = <<Num(100), Num(110), Num(120), Num(130)>>
              => trend.direction = "increasing"

\* C13 witness: a series whose slope is exactly 0.1 has been found stable
C13_Witness ==
    /\ trend.called
    /\ trend.values = <<Num(100), Num(100), Num(101), Num(100)>>
    /\ trend.slope = Rat(1, 10)
    /\ trend.direction = "stable"
----------------------------------------------------------------------------
(* Properties: streaks *)

\* the length of the run of consecutive days of S that ends at day d
RECURSIVE RunEndingAt(_, _)
RunEndingAt(S, d) == IF d \in S THEN 1 + RunEndingAt(S, d - 1) ELSE 0

LongestRun(S) == IF S = {} THEN 0 ELSE Max({RunEndingAt(S, d) : d \in S})

LoggedDays == getUniqueDates(getAllMeals(mealStore))

\* C14: 'current' is the length of the run of consecutive calendar days with
\* a record that ends at today, or at yesterday when today has no record (0
\* when neither has one), and 'longest' is the length of the longest run of
\* consecutive calendar days; both are 0 for no meals; records on today,
\* yesterday and the day before, with a gap before that, give 3 and 3.
C14_Streaks ==
    streaks.called =>
        LET today == getCurrentDate(now)
        IN  /\ streaks.current =
                  IF today \in LoggedDays THEN RunEndingAt(LoggedDays, today)
                  ELSE RunEndingAt(LoggedDays, today - 1)
            /\ streaks.longest = LongestRun(LoggedDays)
            /\ LoggedDays = {} => streaks.current = 0 /\ streaks.longest = 0
            /\ LoggedDays = {today - 2, today - 1, today}
                  => streaks.current = 3 /\ streaks.longest = 3
----------------------------------------------------------------------------
(* Properties: the stored meal collection *)

\* the records a sequence of calls leaves: a saveMeal that returned true adds
\* its record at the end, a deleteMeal that returned true takes out what has
\* its id
RECURSIVE SavedAndNotDeleted(_)
SavedAndNotDeleted(log) ==
    IF log = <<>> THEN <<>>
    ELSE LET before == SavedAndNotDeleted(SubSeq(log, 1, Len(log) - 1))
             call == log[Len(log)]
         IN  IF ~call.returned THEN before
             ELSE IF call.op = "saveMeal"
                  THEN Append(before, [id |-> call.id, meal |-> call.meal])
                  ELSE SelectSeq(before, LAMBDA rec : rec.id # call.id)

\* C15: after any sequence of saveMeal and deleteMeal calls the stored
\* collection is exactly the records saved and not deleted since, in the order
\* they were saved, each with the id it was given and every field value of
\* the meal it was saved with.
C15_SavedAndNotDeleted ==
    LET stored == getAllMeals(mealStore)
        kept == SavedAndNotDeleted(mealLog)
    IN  /\ Len(stored) = Len(kept)
        /\ \A i \in 1..Len(stored) :
              /\ stored[i].id = kept[i].id
              /\ \A f \in DOMAIN kept[i].meal : stored[i][f] = kept[i].meal[f]
              /\ DOMAIN stored[i] = DOMAIN kept[i].meal \cup {"id", "dateAdded"}

\* two meals were saved, the first was deleted and the second is what is stored
C15_Witness ==
    /\ Len(mealLog) = 3
    /\ mealLog[1].op = "saveMeal" /\ mealLog[1].returned
    /\ mealLog[2].op = "saveMeal" /\ mealLog[2].returned
    /\ mealLog[3].op = "deleteMeal" /\ mealLog[3].returned
    /\ mealLog[3].id = mealLog[1].id /\ mealLog[2].id # mealLog[1].id
    /\ Len(getAllMeals(mealStore)) = 1
    /\ getAllMeals(mealStore)[1].id = mealLog[2].id
----------------------------------------------------------------------------
(* Properties: the meals the pages store *)

\* a stored number that is not below zero
NonNegative(a) == LessEq(Num(0), a)

\* C16: in every state the pages can reach (meal form submit, save to library,
\* add to plan and quick add from the library, library import) every stored
\* meal record has calories, protein, carbs and fats of at least 0.
C16_StoredMealsNonNegative ==
    \A i \in 1..Len(getAllMeals(mealStore)) :
        LET meal == getAllMeals(mealStore)[i]
        IN  /\ NonNegative(meal.calories)
            /\ NonNegative(meal.protein)
            /\ NonNegative(meal.carbs)
            /\ NonNegative(meal.fats)
----------------------------------------------------------------------------
(* Properties: reset of the profile *)

\* C17: a confirmed reset of the profile resets what is persisted: in the
\* state a resetProfile step ends in, ProfileManager.getProfile() and
\* getGoals() return APP_CONFIG.defaults.profile and APP_CONFIG.defaults.goals.
C17_ResetRestoresDefaults ==
    [][(ResetProfile \/ ResetProfileRemovingBMI) =>
          /\ getProfile(profileItem') = DefaultProfile
          /\ getGoals(goalsItem') = DefaultGoals]_vars
----------------------------------------------------------------------------
(* Properties: the meals of a tracking period *)

\* the stored meals of the calendar days first..last
MealsOfDays(first, last) ==
    SelectSeq(getAllMeals(mealStore), LAMBDA meal : meal.date \in first..last)

\* C18: for a period of N days, at any time of day, getMealsForPeriod returns
\* exactly the stored meals dated today-N+1 .. today, so every day drawn on
\* the N-day calories trend chart carries the calories of all its meals.
C18_PeriodIsLastNDays ==
    caloriesChart.called =>
        LET N == caloriesChart.days
            today == getCurrentDate(now)
        IN  /\ caloriesChart.meals = MealsOfDays(today - N + 1, today)
            /\ \A k \in 1..N :
                  LET day == caloriesChart.data[k]
                  IN  day.calories = calculateTotalNutrition(MealsOfDays(day.date, day.date)).calories
----------------------------------------------------------------------------
(* Properties: the default meals of the library *)

\* the fields of a library meal that do not depend on the clock
Timeless(meal) == [f \in DOMAIN meal \ {"dateAdded"} |-> meal[f]]

\* C19: after any sequence of save-to-library, import and delete operations
\* the library holds every pre-loaded default meal, flagged isDefault and with
\* the fields it was loaded with: a delete of a default meal is refused.
C19_DefaultMealsStay ==
    LET libraryMeals == getLibraryMeals(libraryItem, now)
        defaults == getDefaultMeals(now)
    IN  \A n \in 1..Len(defaults) :
            \E i \in 1..Len(libraryMeals) :
                /\ libraryMeals[i].isDefault
                /\ Timeless(libraryMeals[i]) = Timeless(defaults[n])

\* the library is stored with a meal of the user, and the delete of a default
\* meal was just refused
C19_Witness ==
    /\ libraryItem.present
    /\ Len(UserMeals(getLibraryMeals(libraryItem, now))) = 1
    /\ notification = Notice("error", "Cannot delete default meals", "")
----------------------------------------------------------------------------
(* Properties: the texts the pages write *)

\* the texts of the model that hold a tag: a '<' that sanitizeHTML would have
\* turned into '&lt;'
HasMarkup(s) == s \in {MarkupText, Truncate15(MarkupText)}

\* the texts of a meal in the cards of the containers of the page
WrittenTexts ==
    UNION {{page.todaysMeals[i].title} \cup
           UNION {{page.todaysMeals[i].cards[j].foodItem,
                   page.todaysMeals[i].cards[j].servingSize} :
                       j \in 1..Len(page.todaysMeals[i].cards)} :
               i \in 1..Len(page.todaysMeals)}
    \cup UNION {UNION {{page.weekGrid[i].meals[j].title, page.weekGrid[i].meals[j].text} :
                           j \in 1..Len(page.weekGrid[i].meals)} :
                    i \in 1..Len(page.weekGrid)}
    \cup UNION {{page.libraryGrid[i].ariaLabel, page.libraryGrid[i].foodItem,
                 page.libraryGrid[i].mealType, page.libraryGrid[i].servingSize} :
                    i \in 1..Len(page.libraryGrid)}

\* C20: whatever path a meal took into storage (meal form, save to library,
\* library import followed by add to plan), no text of a meal that the planner
\* page or the library page has written into its HTML holds a tag: each one
\* has been HTML-escaped.
C20_WrittenTextsEscaped == \A s \in WrittenTexts : ~HasMarkup(s)
----------------------------------------------------------------------------
(* Properties: the theme *)

\* C21: whenever the system colour scheme changes while the app is loaded, the
\* theme of the document becomes the system scheme if the user has never
\* clicked the theme toggle, and stays what it was if the user has.
C21_ThemeFollowsSystem ==
    [][systemScheme' # systemScheme =>
          IF manualTheme THEN dataTheme' = dataTheme
          ELSE dataTheme' = schemeTheme(systemScheme')]_vars
----------------------------------------------------------------------------
(* Properties: what the meal form accepts *)

\* min <= a <= max for a number that is there
InRange(a, min, max) == ~IsNull(a) /\ LessEq(Num(min), a) /\ LessEq(a, Num(max))

\* date, meal type and food item filled in, calories in 1..10000, protein,
\* carbs and fats in 0..1000
Acceptable(form) ==
    /\ form.date # NoDate /\ form.mealType # "" /\ form.foodItem # ""
    /\ InRange(form.calories, 1, 10000)
    /\ InRange(form.protein, 0, 1000)
    /\ InRange(form.carbs, 0, 1000)
    /\ InRange(form.fats, 0, 1000)

\* the write of MealManager.saveMeal threw in this step
SaveFailed == notification' = Notice("error", "Failed to save meal. Please try again.", "")

\* C22: unless the write to storage throws, a submission of the meal form whose date, meal type and food item are
\* filled in, whose calories are in 1..10000 and whose protein, carbs and fats
\* are in 0..1000 (0 included) appends exactly one record to the stored meals;
\* any other submission leaves the stored meals as they are.
C22_FormAcceptsExactlyValid ==
    [][HandleFormSubmit /\ ~SaveFailed =>
          IF Acceptable(mealForm)
          THEN /\ Len(getAllMeals(mealStore')) = Len(getAllMeals(mealStore)) + 1
               /\ SubSeq(getAllMeals(mealStore'), 1, Len(getAllMeals(mealStore))) = getAllMeals(mealStore)
          ELSE getAllMeals(mealStore') = getAllMeals(mealStore)]_vars
----------------------------------------------------------------------------
(* Properties: the date of the meal planner *)

\* C23: on the meal planner, after every change of the meal-date input and
\* after every form submission that follows, MealPlannerManager.currentDate is
\* the date of the input and the displayed meal list is the list of that date.
C23_DateInputIsCurrentDate ==
    openPage = "meal-planner" =>
        /\ currentDate = mealForm.date
        /\ page.todaysMeals = loadTodaysMeals(mealStore, mealForm.date)
----------------------------------------------------------------------------
(* Properties: writes to localStorage that throw *)

\* the call of MealManager.saveMeal or deleteMeal that this step made
LastCall == mealLog'[Len(mealLog')]

\* C24: whenever the setItem of a MealManager.saveMeal or deleteMeal call
\* throws, the call returns false (StorageManager.set catches the exception
\* and returns false) and the stored meal collection is what it was before
\* the call.
C24_FailedWriteChangesNothing ==
    [][(Len(mealLog') = Len(mealLog) + 1 /\ LastCall.threw) =>
          /\ ~LastCall.returned
          /\ mealStore' = mealStore
          /\ getAllMeals(mealStore') = getAllMeals(mealStore)]_vars

\* a meal was saved, then a saveMeal and a deleteMeal of that meal threw, and
\* the meal is still what is stored
C24_Witness ==
    /\ Len(mealLog) = 3
    /\ mealLog[1].op = "saveMeal" /\ ~mealLog[1].threw /\ mealLog[1].returned
    /\ mealLog[2].op = "saveMeal" /\ mealLog[2].threw /\ ~mealLog[2].returned
    /\ mealLog[3].op = "deleteMeal" /\ mealLog[3].threw /\ ~mealLog[3].returned
    /\ mealLog[3].id = mealLog[1].id
    /\ Len(getAllMeals(mealStore)) = 1
    /\ getAllMeals(mealStore)[1].id = mealLog[1].id
----------------------------------------------------------------------------
(* Properties: one manager per page load *)

\* C25: once a load of dashboard.html, progress.html, meal-planner.html or
\* meal-library.html has finished, whatever document.readyState was when each
\* script ran, exactly one instance of the page's manager class exists, a
\* 'dataRefresh' event or a form submission runs one handler, and a chart
\* canvas holds one chart.
C25_OneManagerPerLoad ==
    LoadFinished =>
        /\ instances = 1
        /\ lastEvent.type # "" => lastEvent.handlers = 1
        /\ pathname \in ChartPages => chartsPerCanvas(pathname, instances) = 1
----------------------------------------------------------------------------
(* Properties: the stored BMI *)

\* ProfileManager.calculateBMI(profile.height, profile.weight) of the stored
\* profile: null if one of them is missing
StoredProfileBMI ==
    LET stored == getProfile(profileItem)
    IN  IF ~Truthy(stored.height) \/ ~Truthy(stored.weight) THEN Null
        ELSE PM_calculateBMI(ToNumber(stored.height), ToNumber(stored.weight))

\* C26: in every state that saveProfile and resetProfile reach, if the item
\* userBMI exists its value is calculateBMI(height, weight) of the stored
\* profile.
C26_StoredBMIMatchesProfile ==
    bmiItem.present => bmiItem.value.value = StoredProfileBMI

====
